---------------------------- MODULE Spec2Model ----------------------------
(***************************************************************************)
(* A model of the georust/proj binding: the network grid-retrieval         *)
(* callbacks of src/src/network.rs (open, read-range, get-header-value,    *)
(* close, and the retry loop error_handler) and the native-handle          *)
(* lifecycle of Proj in src/src/proj.rs.                                   *)
(*                                                                         *)
(* Strings are TLA+ strings; a character is a string of length one, taken  *)
(* with SubSeq(s, i, i).  The native engine and the HTTP server are the    *)
(* environment: every value they hand to the code is chosen with \E from   *)
(* a small set.                                                            *)
(***************************************************************************)
EXTENDS Integers, Sequences, FiniteSets, TLC

VARIABLES
    pc,         \* "idle": the engine is between callbacks; "call": a callback
                \* is blocked in req.call(); "crashed": the process aborted
    op,         \* the callback in progress: "none", "open" or "read"
    req,        \* the arguments of the current (else the last) callback:
                \* [url, offset, size (size_to_read), name (header_name)]
    inLoop,     \* TRUE once error_handler's while loop has issued a re-request
    retries,    \* error_handler's local `retries`
    sleeps,     \* the thread::sleep durations of this callback, in ms, in order
    reqlog,     \* the requests issued by this callback, in order
    hd,         \* the HandleData behind the open handle, or NoHandle
    handleId,   \* the number of handles opened so far (the live handle's id)
    heap,       \* every CString::into_raw allocation: [val, handle, frees]
    buffer,     \* the caller's buffer of the last open / read-range
    last,       \* what the last completed callback reported to the engine
    served,     \* history: [url, headers]: the URL the live handle was opened
                \* with and the headers, as sent, of the response to the most
                \* recent successful ranged request on it
    resp,       \* history: the last response this callback received
    streak,     \* history: how many 5xx / 429 responses this callback received
    \* ---- Proj lifecycle (src/src/proj.rs)
    projs,      \* the Proj values made: id -> [c_proj, ctx, area, step]
    native,     \* the native objects created: handle -> [kind, destroys]
    calls,      \* the native calls made so far, in order: [f, arg, by]
    result,     \* what the last constructor returned, the native calls it
                \* made and the strings it was given
    builder,    \* the ProjBuilder in scope: [ctx], or NoBuilder
    \* ---- transformations on one Proj (src/src/proj.rs)
    pjErrno,    \* the native error flag of the pipeline (proj_errno)
    outcome,    \* what the last transformation was given and returned
    areaOfUse,  \* what the last area_of_use was handed by the engine and returned
    \* ---- Pj values on a shared ThreadContext (src/src/pj.rs, context.rs)
    ctxRc,      \* the Rc<ThreadContext>: its strong count and who holds it
    pjs,        \* the Pj values made from it, alive or dropped
    rcLog,      \* the native calls that made, used or destroyed the context
                \* and its pipelines
    pjResult,   \* what the last Pj constructor was given and how it ended
    networkSet, \* what the last set_enable_network asked, got and returned
    \* ---- option arrays (src/src/proj.rs, src/src/cstring_array.rs)
    handed,     \* the options array the last export or creation handed the engine
    array       \* a CStringArray, and its last push

netVars == <<pc, op, req, inLoop, retries, sleeps, reqlog, hd, handleId, heap,
             buffer, last, served, resp, streak>>
projVars == <<projs, native, calls, result, builder>>
opVars == <<pjErrno, outcome, areaOfUse>>
rcVars == <<ctxRc, pjs, rcLog, pjResult, networkSet>>
strVars == <<handed, array>>
vars == <<netVars, projVars, opVars, rcVars, strVars>>

----------------------------------------------------------------------------
(* Bounds of the model *)

MaxSize == 2            \* the largest size_to_read the engine asks for
MaxBody == 3            \* the longest response body
MaxHeaderCalls == 2     \* get-header-value calls over a run
MaxOpens == 1           \* handles opened over a run
MaxProjs == 2           \* constructor calls over a run
MaxContexts == 3        \* contexts created or cloned over a run with builders
MaxPoints == 2          \* the longest slice given to an array call
MaxClones == 2          \* Rc::clone calls on the shared ThreadContext
MaxPushes == 4          \* CStringArray::push calls on one array

----------------------------------------------------------------------------
(* Program constants: src/src/network.rs lines 32-37 and 12 *)

MAX_RETRIES == 8
RETRY_CODES == {429, 500, 502, 504}
SUCCESS_ERROR_CODES == 200..299
CLIENT_ERROR_CODES == 400..499
SERVER_ERROR_CODES == 500..599
ErrorStringMaxSize == 128
CLIENT == "proj-rs/0"

----------------------------------------------------------------------------
(* Strings *)

Min(a, b) == IF a <= b THEN a ELSE b

Char(s, i) == SubSeq(s, i, i)

UpperChars == "ABCDEFGHIJKLMNOPQRSTUVWXYZ"
LowerChars == "abcdefghijklmnopqrstuvwxyz"
Digits == "0123456789"

\* The upper-case letters and their lower-case forms; the digits and their
\* values.
UpperSet == {Char(UpperChars, i) : i \in 1..Len(UpperChars)}
LowerOf == [c \in UpperSet |->
               Char(LowerChars, CHOOSE i \in 1..Len(UpperChars) : Char(UpperChars, i) = c)]
DigitSet == {Char(Digits, i) : i \in 1..Len(Digits)}
DigitValue == [c \in DigitSet |-> (CHOOSE i \in 1..Len(Digits) : Char(Digits, i) = c) - 1]

\* char::to_lowercase on the ASCII range.
LowerChar(c) == IF c \in UpperSet THEN LowerOf[c] ELSE c

RECURSIVE LowerRange(_, _, _)
\* Characters lo..hi of s in lower case (halving keeps the recursion shallow).
LowerRange(s, lo, hi) ==
    IF lo > hi THEN ""
    ELSE IF lo = hi THEN LowerChar(Char(s, lo))
    ELSE LET mid == (lo + hi) \div 2
         IN  LowerRange(s, lo, mid) \o LowerRange(s, mid + 1, hi)

\* str::to_lowercase (network.rs line 290) on ASCII text.
to_lowercase(s) == LowerRange(s, 1, Len(s))

RECURSIVE ReplaceRange(_, _, _)
\* Characters lo..hi of s with every '0' replaced by "nought".
ReplaceRange(s, lo, hi) ==
    IF lo > hi THEN ""
    ELSE IF lo = hi THEN (IF Char(s, lo) = "0" THEN "nought" ELSE Char(s, lo))
    ELSE LET mid == (lo + hi) \div 2
         IN  ReplaceRange(s, lo, mid) \o ReplaceRange(s, mid + 1, hi)

\* str::replace('0', "nought") (network.rs line 343).
Replace0(s) == ReplaceRange(s, 1, Len(s))

RECURSIVE NatToString(_)
\* Display of an unsigned integer ({offset}, {end}, {2} of DownloadError).
NatToString(n) ==
    IF n < 10 THEN Char(Digits, n + 1)
    ELSE NatToString(n \div 10) \o Char(Digits, (n % 10) + 1)

RECURSIVE ParseDigits(_, _)
\* The value of a non-empty digit string, or -1 when a character is no digit.
ParseDigits(s, acc) ==
    IF Len(s) = 0 THEN acc
    ELSE IF Char(s, 1) \notin DigitSet THEN -1
    ELSE ParseDigits(SubSeq(s, 2, Len(s)), acc * 10 + DigitValue[Char(s, 1)])

\* s.parse::<usize>().ok() (network.rs lines 206, 395): -1 is None.  Rust
\* accepts one leading '+' and needs at least one digit.
ParseUsize(s) ==
    LET t == IF Len(s) > 0 /\ Char(s, 1) = "+" THEN SubSeq(s, 2, Len(s)) ELSE s
    IN  IF Len(t) = 0 THEN -1 ELSE ParseDigits(t, 0)

\* A byte string that is not UTF-8 (for _string) or not visible ASCII (for
\* HeaderValue::to_str) is the one text InvalidBytes.
InvalidBytes == "<invalid bytes>"

\* proj.rs _string: Ok(text) unless the bytes are not UTF-8.
StringOk(raw) == raw # InvalidBytes


RECURSIVE Repeat(_, _)
Repeat(s, n) == IF n = 0 THEN "" ELSE s \o Repeat(s, n - 1)

----------------------------------------------------------------------------
(* The environment: URLs, HTTP responses *)

ShortUrl == "https://cdn.proj.org/a0.tif"
\* 146 characters: longer than the engine's error buffer.
LongUrl == "https://cdn.proj.org/" \o Repeat("grid/", 24) \o "a.tif"
Urls == {ShortUrl, LongUrl, InvalidBytes}
Offsets == {0, 16}
Sizes == 1..MaxSize

\* The status codes the server answers with, one or two of each class.
Statuses == {200, 206, 302, 404, 429, 500, 503}

\* Display of http::StatusCode: the code and its canonical reason
\* (res.status().to_string(), network.rs lines 107 and 116).
StatusText(st) ==
    CASE st = 200 -> "200 OK"
      [] st = 206 -> "206 Partial Content"
      [] st = 302 -> "302 Found"
      [] st = 404 -> "404 Not Found"
      [] st = 429 -> "429 Too Many Requests"
      [] st = 500 -> "500 Internal Server Error"
      [] st = 503 -> "503 Service Unavailable"
      [] OTHER -> NatToString(st) \o " <unknown status code>"

\* Response headers as sent: a sequence of <<name, value>>, names in any case.
ContentLengthHeader(v) == << <<"Content-Length", v>> >>
NoHeaders == << >>

\* The i-th byte of every body is 100 + i; IoError is a body whose read fails.
Body(n) == [i \in 1..n |-> 100 + i]
IoError == << -2 >>

Response(st, hs, body) == [status |-> st, headers |-> hs, body |-> body]
\* A response whose status is no success is read for its status alone.
Failures(sts) == {Response(st, NoHeaders, Body(0)) : st \in sts \ SUCCESS_ERROR_CODES}

\* Responses that differ in status: every status, and a success with or
\* without a Content-Length, with one header set or another, and a body
\* that reads or fails.
StatusResponses ==
    Failures(Statuses)
    \cup {Response(st, hs, b) :
              st \in Statuses \cap SUCCESS_ERROR_CODES,
              hs \in {NoHeaders, ContentLengthHeader("1"),
                      << <<"ETag", "a">> >> \o ContentLengthHeader("1")},
              b \in {Body(1), IoError}}

\* Responses that differ in their headers.
OtherHeaders ==
    { NoHeaders,
      << <<"ETag", "a">> >>,
      << <<"ETag", "a">>, <<"etag", "b">> >>,
      << <<"Content-Range", InvalidBytes>>, <<"Age", "1">> >> }
HeaderLists == {o \o c : o \in OtherHeaders, c \in {NoHeaders, ContentLengthHeader("1")}}
HeaderResponses ==
    Failures({404})
    \cup {Response(200, hs, b) : hs \in HeaderLists, b \in {Body(1), IoError}}

\* Responses that differ in Content-Length and body length.
ClValues == {NatToString(n) : n \in 0..MaxBody} \cup {"+1", "x"}
Bodies == {Body(n) : n \in 0..MaxBody} \cup {IoError}
SizeResponses ==
    Failures({404})
    \cup {Response(200, hs, b) :
              hs \in {NoHeaders} \cup {ContentLengthHeader(v) : v \in ClValues},
              b \in Bodies}

\* What the caller's buffer holds before the copy, and what a read of
\* uninitialised Vec capacity can yield.
Untouched == -1
GarbageBytes == {0, 255}

----------------------------------------------------------------------------
(* Headers: network.rs lines 202-217 and 381-396 *)

\* HeaderValue::to_str: Err for bytes outside visible ASCII.
ToStrOk(v) == v # InvalidBytes

\* http::HeaderName holds the name in lower case; h.to_string() yields it.
HeaderNameString(wire) == to_lowercase(wire)

\* res.headers().iter().filter_map(..).collect::<HashMap<_, _>>(): the entries
\* whose value is a string, a later one replacing an earlier one of its name.
CollectHeaders(hs) ==
    LET kept == {i \in DOMAIN hs : ToStrOk(hs[i][2])}
        names == {HeaderNameString(hs[i][1]) : i \in kept}
        lastOf(n) == CHOOSE i \in kept :
                        /\ HeaderNameString(hs[i][1]) = n
                        /\ \A j \in kept : HeaderNameString(hs[j][1]) = n => j <= i
    IN  [n \in names |-> hs[lastOf(n)][2]]

\* HeaderMap::get takes the key in any case.
ContentLengthKey == to_lowercase("Content-Length")

\* res.headers().get("Content-Length") and the parse: the first value of
\* that name, -1 (None) when absent, not a string, or not a usize.
ContentLength(hs) ==
    LET hits == {i \in DOMAIN hs : HeaderNameString(hs[i][1]) = ContentLengthKey}
        first == CHOOSE i \in hits : \A j \in hits : i <= j
    IN  IF hits = {} THEN -1
        ELSE IF ~ToStrOk(hs[first][2]) THEN -1
        ELSE ParseUsize(hs[first][2])

----------------------------------------------------------------------------
(* ProjError: proj.rs lines 93-134 *)

NoError == [kind |-> "none", status |-> "", url |-> "", retries |-> 0]
SimpleError(k) == [kind |-> k, status |-> "", url |-> "", retries |-> 0]
DownloadError(st, url, n) ==
    [kind |-> "DownloadError", status |-> StatusText(st), url |-> url, retries |-> n]

\* Display of ProjError (the #[error(..)] attributes).
ErrorText(e) ==
    CASE e.kind = "DownloadError" ->
            "A " \o e.status \o " error occurred for url " \o e.url
                 \o " after " \o NatToString(e.retries) \o " retries"
      [] e.kind = "NetworkError" -> "Couldn't access the network"
      [] e.kind = "ContentLength" -> "Could not retrieve content length"
      [] e.kind = "ReadError" -> "Couldn't read response to buffer"
      [] e.kind = "Utf8Error" -> "Couldn't convert bytes from PROJ to UTF-8"
      [] e.kind = "HeaderError" -> "Couldn't retrieve header for key " \o e.url
      [] OTHER -> ""

----------------------------------------------------------------------------
(* The retry loop: network.rs lines 66-122 *)

\* get_wait_time_quad, in ms.
get_wait_time_quad(retrycount) ==
    IF retrycount = 0 THEN 0 ELSE retrycount * retrycount * 100

\* A variant that retries every client error as well.
IsRetriableClient(st) == st \in SERVER_ERROR_CODES \/ st \in CLIENT_ERROR_CODES

\* Lines 86-87 and 90-91: a server error, or one of the S3 retry codes.
IsRetriable(st) == st \in SERVER_ERROR_CODES \/ st \in RETRY_CODES

\* The while condition, lines 90-92.
LoopCondition(st, n) == IsRetriable(st) /\ n <= MAX_RETRIES

\* Lines 112-121: after the loop, or when it was never entered.
AfterLoop(st) == IF st \notin SUCCESS_ERROR_CODES THEN "err" ELSE "ok"

\* A variant whose check after the loop reads the status that entered the
\* loop and not the status of the last re-request.
error_handler_stale(st, n, looping) ==
    IF looping \/ IsRetriable(st)
    THEN IF LoopCondition(st, n) THEN "retry" ELSE "err"
    ELSE IF st \in CLIENT_ERROR_CODES THEN "err"
    ELSE AfterLoop(st)

\* error_handler, up to its next req.call(): what it does with a response of
\* status st when its counter is n; looping says the response came from a
\* re-request of the while loop (else it is the response passed in as `res`).
\* "retry": sleep and reissue; "err": return DownloadError; "ok": return Ok.
error_handler(st, n, looping) ==
    IF looping \/ IsRetriable(st)
    THEN IF LoopCondition(st, n) THEN "retry" ELSE AfterLoop(st)
    ELSE IF st \in CLIENT_ERROR_CODES THEN "err"
    ELSE AfterLoop(st)

\* The ranged GET of lines 183-191 and 364-371; a retry sends the same one.
Request(url, offset, size) ==
    [url |-> url,
     headers |-> << <<"Range", "bytes=" \o NatToString(offset) \o "-"
                                \o NatToString(offset + size - 1)>>,
                    <<"Client", CLIENT>> >>]

----------------------------------------------------------------------------
(* State *)

NoHandle == [url |-> "", headers |-> << >>, hptr |-> -1]
NoResponse == [status |-> 0, headers |-> << >>, body |-> << >>]
NoRequest == [url |-> "", offset |-> 0, size |-> 0, name |-> ""]

NoneServed == [url |-> "", headers |-> << >>]

\* What a callback reported: ok; the ProjError; the text and the number of
\* bytes written to out_error_string; the handle returned by open (0: null);
\* the size reported (out_size_read, or read-range's return value);
\* error_handler's result ("ok", "err", "transport" when a re-request failed
\* in it, "none" when it was not reached); the pointer returned by
\* get-header-value (0: none).
Report(o, ok, e, txt, h, size, eh, ptr) ==
    [op |-> o, ok |-> ok, err |-> e, errString |-> txt, errBytes |-> Len(txt) + 1,
     handle |-> h, size |-> size, eh |-> eh, ptr |-> ptr]

NoReport == Report("none", TRUE, NoError, "", 0, 0, "none", 0)

NetInit ==
    /\ pc = "idle"
    /\ op = "none"
    /\ req = NoRequest
    /\ inLoop = FALSE
    /\ retries = 0
    /\ sleeps = << >>
    /\ reqlog = << >>
    /\ hd = NoHandle
    /\ handleId = 0
    /\ heap = << >>
    /\ buffer = << >>
    /\ last = NoReport
    /\ served = NoneServed
    /\ resp = NoResponse
    /\ streak = 0

----------------------------------------------------------------------------
(* The callbacks: network.rs lines 135-421 *)

\* The Err arm of the facades network_open (lines 159-164) and
\* network_read_range (lines 340-347): the whole text and a NUL are written to
\* out_error_string, whatever error_string_max_size is; a write past the
\* engine's buffer is undefined behaviour: the process goes on, or aborts.
Fail(o, e, eh) ==
    LET txt == IF o = "open" THEN ErrorText(e) ELSE Replace0(ErrorText(e))
    IN  /\ last' = Report(o, FALSE, e, txt, 0, 0, eh, 0)
        /\ pc' \in (IF Len(txt) + 1 > ErrorStringMaxSize
                    THEN {"idle", "crashed"} ELSE {"idle"})
        /\ op' = "none"
        /\ UNCHANGED <<hd, handleId, heap, buffer, served>>

\* body_reader.take(size_to_read).read_to_end(&mut buf)
TakeBody(body, size) == SubSeq(body, 1, Min(Len(body), size))

\* How many bytes buf.as_ptr().copy_to_nonoverlapping(buffer, n) copies
\* (lines 230 and 408-411).
CopyCount(contentlength, size, buflen) == Min(contentlength, size)

\* A variant in which read-range keeps the headers recorded at open.
StoreHeadersAtOpen(o, h, url, hs) ==
    IF o = "open"
    THEN [url |-> url, headers |-> CollectHeaders(hs), hptr |-> 0]
    ELSE h

\* HandleData::new(url, headers, None) of line 232 on open, and
\* hd.headers = headers of line 419 on read-range.
StoreHeaders(o, h, url, hs) ==
    IF o = "open"
    THEN [url |-> url, headers |-> CollectHeaders(hs), hptr |-> 0]
    ELSE [h EXCEPT !.headers = CollectHeaders(hs)]

\* Lines 201-243 (open) and 381-420 (read-range), once error_handler
\* returned Ok with response r.
Succeed(o, r) ==
    LET contentlength == ContentLength(r.headers)
        size == req.size
        capacity == Min(contentlength, size)
        buf == TakeBody(r.body, size)
        copied == CopyCount(contentlength, size, Len(buf))
        fromBody == Min(Len(buf), copied)
    IN  IF contentlength = -1 THEN Fail(o, SimpleError("ContentLength"), "ok")
        ELSE IF r.body = IoError THEN Fail(o, SimpleError("ReadError"), "ok")
        ELSE /\ \E g \in [(fromBody + 1)..copied -> GarbageBytes] :
                    buffer' = [i \in 1..size |->
                                  IF i <= fromBody THEN buf[i]
                                  ELSE IF i <= copied THEN g[i]
                                  ELSE Untouched]
             /\ hd' = StoreHeaders(o, hd, req.url, r.headers)
             /\ handleId' = IF o = "open" THEN handleId + 1 ELSE handleId
             /\ served' = [url |-> IF o = "open" THEN req.url ELSE served.url,
                           headers |-> r.headers]
             /\ last' = Report(o, TRUE, NoError, "",
                               IF o = "open" THEN handleId + 1 ELSE 0,
                               Len(buf), "ok", 0)
             /\ pc' = "idle"
             /\ op' = "none"
             /\ UNCHANGED heap

\* A callback that sends no request: what the variables recorded of the
\* requests, the sleeps and the buffer of the callback before is dropped.
Forget ==
    /\ inLoop' = FALSE
    /\ retries' = 0
    /\ sleeps' = << >>
    /\ reqlog' = << >>
    /\ resp' = NoResponse
    /\ streak' = 0
    /\ buffer' = << >>

\* The engine calls open (lines 170-193): _string(url), then the first request.
network_open(url, offset, size) ==
    /\ pc = "idle"
    /\ hd = NoHandle
    /\ handleId < MaxOpens
    /\ req' = [url |-> url, offset |-> offset, size |-> size, name |-> ""]
    /\ inLoop' = FALSE
    /\ retries' = 0
    /\ sleeps' = << >>
    /\ resp' = NoResponse
    /\ streak' = 0
    /\ IF ~StringOk(url)
       THEN /\ reqlog' = << >>
            /\ Fail("open", SimpleError("Utf8Error"), "none")
       ELSE /\ reqlog' = << Request(url, offset, size) >>
            /\ pc' = "call"
            /\ op' = "open"
            /\ buffer' = [i \in 1..size |-> Untouched]
            /\ UNCHANGED <<hd, handleId, heap, last, served>>
    /\ UNCHANGED <<projVars, opVars, rcVars, strVars>>

\* The engine calls read-range on the open handle (lines 353-373).
network_read_range(offset, size) ==
    /\ pc = "idle"
    /\ hd # NoHandle
    /\ req' = [url |-> hd.url, offset |-> offset, size |-> size, name |-> ""]
    /\ inLoop' = FALSE
    /\ retries' = 0
    /\ sleeps' = << >>
    /\ resp' = NoResponse
    /\ streak' = 0
    /\ reqlog' = << Request(hd.url, offset, size) >>
    /\ pc' = "call"
    /\ op' = "read"
    /\ buffer' = [i \in 1..size |-> Untouched]
    /\ UNCHANGED <<hd, handleId, heap, last, served>>
    /\ UNCHANGED <<projVars, opVars, rcVars, strVars>>

\* req.call() returns Err (lines 102, 193, 373): `?` returns NetworkError.
call_err ==
    /\ pc = "call"
    /\ Fail(op, SimpleError("NetworkError"), IF Len(reqlog) = 1 THEN "none" ELSE "transport")
    /\ UNCHANGED <<req, inLoop, retries, sleeps, reqlog, resp, streak>>
    /\ UNCHANGED <<projVars, opVars, rcVars, strVars>>

\* req.call() returns Ok(r): error_handler runs up to its next request or its
\* return, and on Ok the callback completes.
call_ok(r) ==
    /\ pc = "call"
    /\ resp' = r
    /\ streak' = IF r.status \in 500..599 \/ r.status = 429 THEN streak + 1 ELSE streak
    /\ LET todo == error_handler(r.status, retries, inLoop)
       IN  CASE todo = "retry" ->
                    /\ retries' = retries + 1
                    /\ sleeps' = Append(sleeps, get_wait_time_quad(retries + 1))
                    /\ reqlog' = Append(reqlog, Request(req.url, req.offset, req.size))
                    /\ inLoop' = TRUE
                    /\ UNCHANGED <<pc, op, req, hd, handleId, heap, buffer, last, served>>
              [] todo = "err" ->
                    /\ Fail(op, DownloadError(r.status, req.url, retries), "err")
                    /\ UNCHANGED <<req, inLoop, retries, sleeps, reqlog>>
              [] todo = "ok" ->
                    /\ Succeed(op, r)
                    /\ UNCHANGED <<req, inLoop, retries, sleeps, reqlog>>
    /\ UNCHANGED <<projVars, opVars, rcVars, strVars>>

\* A variant that looks the name up as the engine spelt it.
LookupAsSpelt(header_name) == header_name

\* Line 290: the name the engine asks for, in lower case.
Lookup(header_name) == to_lowercase(header_name)

\* get-header-value (lines 262-306): the value found, or "" on a miss or a
\* name that is not UTF-8, goes to a fresh C string whose pointer is returned
\* and stored in hptr, replacing the pointer stored before.
network_get_header_value(header_name) ==
    /\ pc = "idle"
    /\ hd # NoHandle
    /\ Len(heap) < MaxHeaderCalls
    /\ LET lookup == Lookup(header_name)
           found == StringOk(header_name) /\ lookup \in DOMAIN hd.headers
           hvalue == IF found THEN hd.headers[lookup] ELSE ""
           header == Len(heap) + 1
       IN  /\ heap' = Append(heap, [val |-> hvalue, handle |-> handleId, frees |-> 0])
           /\ hd' = [hd EXCEPT !.hptr = header]
           /\ last' = Report("get_header", found,
                             IF found THEN NoError
                             ELSE IF StringOk(header_name)
                                  THEN [SimpleError("HeaderError") EXCEPT !.url = lookup]
                                  ELSE SimpleError("Utf8Error"),
                             "", 0, 0, "none", header)
    /\ req' = [url |-> hd.url, offset |-> 0, size |-> 0, name |-> header_name]
    /\ Forget
    /\ UNCHANGED <<pc, op, handleId, served>>
    /\ UNCHANGED <<projVars, opVars, rcVars, strVars>>

\* Drop for HandleData (lines 56-64): the C string hptr points to is freed.
DropHandleData(h, mem) ==
    IF h.hptr > 0
    THEN [mem EXCEPT ![h.hptr].frees = @ + 1]
    ELSE mem

\* close (lines 247-257): the Box is rebuilt and dropped.
network_close ==
    /\ pc = "idle"
    /\ hd # NoHandle
    /\ heap' = DropHandleData(hd, heap)
    /\ hd' = NoHandle
    /\ last' = Report("close", TRUE, NoError, "", 0, 0, "none", 0)
    /\ req' = NoRequest
    /\ served' = NoneServed
    /\ Forget
    /\ UNCHANGED <<pc, op, handleId>>
    /\ UNCHANGED <<projVars, opVars, rcVars, strVars>>

HeaderQueries == {"ETag", "etag", "ETAG", "Content-Length", "content-range", "Server",
                  InvalidBytes}

\* The retry loop: the server answers with every status, the engine opens
\* short, long and malformed URLs.
RetryNext ==
    \/ \E url \in Urls, offset \in Offsets : network_open(url, offset, 1)
    \/ \E offset \in Offsets : network_read_range(offset, 1)
    \/ call_err
    \/ \E r \in StatusResponses : call_ok(r)
    \/ network_close

\* The header cache: the server answers with differing header sets or a
\* client error, the engine asks for header values.
HeadersNext ==
    \/ network_open(ShortUrl, 0, 1)
    \/ network_read_range(16, 1)
    \/ call_err
    \/ \E r \in HeaderResponses : call_ok(r)
    \/ \E n \in HeaderQueries : network_get_header_value(n)
    \/ network_close

\* The copy into the caller's buffer: every Content-Length, body length and
\* size_to_read.
CopyNext ==
    \/ \E size \in Sizes : network_open(ShortUrl, 0, size)
    \/ \E size \in Sizes : network_read_range(16, size)
    \/ call_err
    \/ \E r \in SizeResponses : call_ok(r)
    \/ network_close

----------------------------------------------------------------------------
(* Proj and its native handles: proj.rs lines 53-60, 206-245, 562-566,     *)
(* 655-714 and 1495-1508 (main.rs lines 99-112 holds the same Drop)        *)

\* The character that stands for the NUL byte in a caller's string.
NUL == "#"
HasNul(s) == \E i \in 1..Len(s) : Char(s, i) = NUL

Definitions == {"+proj=merc", "+proj" \o NUL \o "=merc"}
CrsNames == {"EPSG:4326", "EPSG" \o NUL \o ":4326"}

\* The URL endpoint of a context that was not configured.
DefaultEndpoint == "https://cdn.proj.org"

\* A native object; a handle is its index in `native`, 0 is the null pointer.
\* A context carries its URL endpoint.
Native(kind) == [kind |-> kind, destroys |-> 0, endpoint |-> DefaultEndpoint]
\* A native call, and the Proj (0: none) whose drop made it.
Call(f, arg, by) == [f |-> f, arg |-> arg, by |-> by]

\* A Proj (lines 562-566) and how far its drop has come: Live, or the
\* number of native calls drop has made.
Live == -1
NoProj == [c_proj |-> 0, ctx |-> 0, area |-> 0, step |-> Live]
Ok(p, nat, log) == [ok |-> TRUE, err |-> "", proj |-> p, native |-> nat, calls |-> log]
Err(e, nat, log) == [ok |-> FALSE, err |-> e, proj |-> NoProj, native |-> nat, calls |-> log]

\* result_from_create and the map_err of lines 208-209, 228-231: a null
\* pointer becomes ProjCreateError::ProjError with the context's message.
CreateFailed(ctx, nat, log) ==
    Err("ProjError", nat,
        log \o << Call("proj_context_errno", ctx, 0),
                  Call("proj_context_errno_string", ctx, 0) >>)

\* transform_string (lines 206-215); created: proj_create returned an object.
transform_string(ctx, definition, created, nat, log) ==
    IF HasNul(definition) THEN Err("ArgumentNulError", nat, log)
    ELSE LET log1 == Append(log, Call("proj_create", ctx, 0))
         IN  IF ~created THEN CreateFailed(ctx, nat, log1)
             ELSE Ok([c_proj |-> Len(nat) + 1, ctx |-> ctx, area |-> 0, step |-> Live],
                     Append(nat, Native("pj")), log1)

\* A Proj that keeps the handle it was created with.
StaleHandle(ptr, normalised) == ptr

\* The pipeline handle transform_epsg puts in the Proj (line 241).
NormalisedHandle(ptr, normalised) == normalised

\* transform_epsg (lines 218-245); created: proj_create_crs_to_crs returned
\* an object; normalisedOk: proj_normalize_for_visualization did.
transform_epsg(ctx, from, to, area, created, normalisedOk, nat, log) ==
    IF HasNul(from) \/ HasNul(to) THEN Err("ArgumentNulError", nat, log)
    ELSE LET proj_area == Len(nat) + 1
             nat1 == Append(nat, Native("area"))
             log1 == Append(log, Call("proj_area_create", proj_area, 0))
                     \o (IF area THEN << Call("proj_area_set_bbox", proj_area, 0) >>
                         ELSE << >>)
                     \o << Call("proj_create_crs_to_crs", ctx, 0) >>
         IN  IF ~created THEN CreateFailed(ctx, nat1, log1)
             ELSE LET ptr == Len(nat1) + 1
                      nat2 == Append(nat1, Native("pj"))
                      normalised == IF normalisedOk THEN Len(nat2) + 1 ELSE 0
                      nat3 == IF normalisedOk THEN Append(nat2, Native("pj")) ELSE nat2
                      nat4 == [nat3 EXCEPT ![ptr].destroys = @ + 1]
                      log2 == log1 \o << Call("proj_normalize_for_visualization", ptr, 0),
                                         Call("proj_destroy", ptr, 0) >>
                  IN  Ok([c_proj |-> NormalisedHandle(ptr, normalised), ctx |-> ctx,
                          area |-> proj_area,
                          step |-> Live], nat4, log2)

\* No ProjBuilder is in scope; moved: the context the last one held when a
\* constructor consumed it (0: none did).
NoBuilder == [ctx |-> 0, moved |-> 0]

ProjInit ==
    /\ projs = << >>
    /\ native = << >>
    /\ calls = << >>
    /\ result = [ok |-> FALSE, err |-> "", proj |-> NoProj, calls |-> << >>,
                 inputs |-> << >>]
    /\ builder = NoBuilder

\* A variant that destroys the context before the pipeline.
DropCallsContextFirst(p) ==
    (IF projs[p].area # 0 THEN << Call("proj_area_destroy", projs[p].area, p) >> ELSE << >>)
    \o << Call("proj_context_destroy", projs[p].ctx, p),
          Call("proj_destroy", projs[p].c_proj, p),
          Call("proj_cleanup", 0, p) >>

\* Drop for Proj (lines 1495-1508): the native calls it makes, in order.
DropCalls(p) ==
    (IF projs[p].area # 0 THEN << Call("proj_area_destroy", projs[p].area, p) >> ELSE << >>)
    \o << Call("proj_destroy", projs[p].c_proj, p),
          Call("proj_context_destroy", projs[p].ctx, p),
          Call("proj_cleanup", 0, p) >>

Dropped(p) == projs[p].step = Len(DropCalls(p))

\* No drop is under way: drop runs to its end on the calling thread.
Quiet == \A p \in DOMAIN projs : projs[p].step = Live \/ Dropped(p)

\* The constructor's result r becomes the state; inputs: the strings the
\* caller gave it.
Return(r, inputs) ==
    /\ native' = r.native
    /\ calls' = r.calls
    /\ result' = [ok |-> r.ok, err |-> r.err, proj |-> r.proj,
                  calls |-> SubSeq(r.calls, Len(calls) + 1, Len(r.calls)),
                  inputs |-> inputs]
    /\ projs' = IF r.ok THEN Append(projs, r.proj) ELSE projs

Constructions == Cardinality({i \in DOMAIN calls : calls[i].f = "proj_context_create"})

\* Proj::new (lines 655-658).
proj_new(definition, created) ==
    /\ Quiet
    /\ Constructions < MaxProjs
    /\ LET ctx == Len(native) + 1
       IN  Return(transform_string(ctx, definition, created,
                                   Append(native, Native("ctx")),
                                   Append(calls, Call("proj_context_create", ctx, 0))),
                  <<definition>>)
    /\ UNCHANGED builder
    /\ UNCHANGED <<netVars, opVars, rcVars, strVars>>

\* Proj::new_known_crs (lines 707-714).
proj_new_known_crs(from, to, area, created, normalisedOk) ==
    /\ Quiet
    /\ Constructions < MaxProjs
    /\ LET ctx == Len(native) + 1
       IN  Return(transform_epsg(ctx, from, to, area, created, normalisedOk,
                                 Append(native, Native("ctx")),
                                 Append(calls, Call("proj_context_create", ctx, 0))),
                  <<from, to>>)
    /\ UNCHANGED builder
    /\ UNCHANGED <<netVars, opVars, rcVars, strVars>>

\* What a native call does to the native objects: a destroy of a non-null
\* handle destroys it once more.
Apply(c, nat) ==
    IF c.f \in {"proj_area_destroy", "proj_destroy", "proj_context_destroy"} /\ c.arg # 0
    THEN [nat EXCEPT ![c.arg].destroys = @ + 1]
    ELSE nat

\* Proj p goes out of scope and drop begins, or the drop under way makes its
\* next native call.
drop_step(p) ==
    /\ IF projs[p].step = Live THEN Quiet ELSE ~Dropped(p)
    /\ LET k == IF projs[p].step = Live THEN 1 ELSE projs[p].step + 1
           c == DropCalls(p)[k]
       IN  /\ native' = Apply(c, native)
           /\ calls' = Append(calls, c)
           /\ projs' = [projs EXCEPT ![p].step = k]
    /\ UNCHANGED <<result, builder>>
    /\ UNCHANGED <<netVars, opVars, rcVars, strVars>>

IsLive(p) == projs[p].step = Live

RECURSIVE ApplyAll(_, _)
\* What a sequence of native calls does to the native objects.
ApplyAll(cs, nat) ==
    IF cs = << >> THEN nat ELSE ApplyAll(Tail(cs), Apply(Head(cs), nat))

\* Proj p goes out of scope and its drop runs to its end.
drop(p) ==
    /\ Quiet
    /\ IsLive(p)
    /\ native' = ApplyAll(DropCalls(p), native)
    /\ calls' = calls \o DropCalls(p)
    /\ projs' = [projs EXCEPT ![p].step = Len(DropCalls(p))]
    /\ UNCHANGED <<result, builder>>
    /\ UNCHANGED <<netVars, opVars, rcVars, strVars>>

\* Contexts created or cloned so far.
ContextsMade ==
    Cardinality({i \in DOMAIN calls :
                    calls[i].f \in {"proj_context_create", "proj_context_clone"}})

\* Option<Vec<&str>>.
None == [some |-> FALSE, v |-> << >>]
Some(v) == [some |-> TRUE, v |-> v]
OptionLists == {None, Some(<<"AUTHORITY=any">>),
                Some(<<"AUTHORITY=any", "ACCURACY" \o NUL \o "=1">>)}

\* crs_to_crs_from_pj (lines 248-296); created: the native
\* proj_create_crs_to_crs_from_pj returned an object.
crs_to_crs_from_pj(ctx, source_crs, target_crs, area, options, created, nat, log) ==
    LET proj_area == Len(nat) + 1
        nat1 == Append(nat, Native("area"))
        log1 == Append(log, Call("proj_area_create", proj_area, 0))
                \o (IF area THEN << Call("proj_area_set_bbox", proj_area, 0) >>
                    ELSE << >>)
    IN  IF options.some /\ \E i \in DOMAIN options.v : HasNul(options.v[i])
        THEN Err("ArgumentNulError", nat1, log1)
        ELSE LET log2 == Append(log1, Call("proj_create_crs_to_crs_from_pj", ctx, 0))
             IN  IF ~created THEN CreateFailed(ctx, nat1, log2)
                 ELSE Ok([c_proj |-> Len(nat1) + 1, ctx |-> ctx, area |-> proj_area,
                          step |-> Live],
                         Append(nat1, Native("pj")), log2)

\* A result that takes the context it was given instead of a clone of it.
proj_context_reused(ctx, nat) == ctx

\* proj_context_clone(ctx): the handle it returns.
proj_context_clone(ctx, nat) == Len(nat) + 1

\* proj_context_clone: a new context with the configuration of ctx.
Clone(ctx, nat) == Append(nat, [Native("ctx") EXCEPT !.endpoint = nat[ctx].endpoint])

\* Proj::create_crs_to_crs_from_pj (lines 760-769).
create_crs_to_crs_from_pj(self, target_crs, area, options, created) ==
    /\ Quiet
    /\ IsLive(self) /\ IsLive(target_crs)
    /\ ContextsMade < MaxContexts
    /\ LET ctx == proj_context_clone(projs[self].ctx, native)
       IN  Return(crs_to_crs_from_pj(ctx, self, target_crs, area, options, created,
                                     Clone(projs[self].ctx, native),
                                     Append(calls, Call("proj_context_clone",
                                                        projs[self].ctx, 0))),
                  options.v)
    /\ UNCHANGED builder
    /\ UNCHANGED <<netVars, opVars, rcVars, strVars>>

\* Proj::coordinate_metadata_create (lines 589-603); created:
\* proj_coordinate_metadata_create returned an object.
coordinate_metadata_create(self, created) ==
    /\ Quiet
    /\ IsLive(self)
    /\ ContextsMade < MaxContexts
    /\ LET cloned_ctx == proj_context_clone(projs[self].ctx, native)
           nat1 == Clone(projs[self].ctx, native)
           log1 == calls \o << Call("proj_context_clone", projs[self].ctx, 0),
                               Call("proj_coordinate_metadata_create", cloned_ctx, 0) >>
       IN  Return(IF created
                  THEN Ok([c_proj |-> Len(nat1) + 1, ctx |-> cloned_ctx, area |-> 0,
                           step |-> Live],
                          Append(nat1, Native("pj")), log1)
                  ELSE Err("MetadataObjectCreation", nat1,
                           Append(log1, Call("proj_context_errno", cloned_ctx, 0))),
                  << >>)
    /\ UNCHANGED builder
    /\ UNCHANGED <<netVars, opVars, rcVars, strVars>>

\* ProjBuilder::new (lines 453-456).
builder_new ==
    /\ Quiet
    /\ builder.ctx = 0
    /\ ContextsMade < MaxContexts
    /\ LET ctx == Len(native) + 1
       IN  /\ native' = Append(native, Native("ctx"))
           /\ calls' = Append(calls, Call("proj_context_create", ctx, 0))
           /\ builder' = [ctx |-> ctx, moved |-> 0]
    /\ UNCHANGED <<projs, result>>
    /\ UNCHANGED <<netVars, opVars, rcVars, strVars>>

Endpoints == {"https://github.com/georust", "https://github.com/" \o NUL}

\* ProjBuilder::set_url_endpoint (lines 421-425), on a builder whose
\* endpoint was not set before.
set_url_endpoint(endpoint) ==
    /\ Quiet
    /\ builder.ctx # 0
    /\ native[builder.ctx].endpoint = DefaultEndpoint
    /\ IF HasNul(endpoint)
       THEN UNCHANGED <<native, calls>>
       ELSE /\ native' = [native EXCEPT ![builder.ctx].endpoint = endpoint]
            /\ calls' = Append(calls, Call("proj_context_set_url_endpoint",
                                           builder.ctx, 0))
    /\ UNCHANGED <<projs, result, builder>>
    /\ UNCHANGED <<netVars, opVars, rcVars, strVars>>

\* Drop for ProjBuilder (lines 1510-1517) on a builder that holds ctx, after
\* the constructor it called returned r.
DropBuilder(ctx, r) ==
    [r EXCEPT !.native = Apply(Call("proj_context_destroy", ctx, 0), r.native),
              !.calls = r.calls \o << Call("proj_context_destroy", ctx, 0),
                                      Call("proj_cleanup", 0, 0) >>]

\* std::mem::replace(&mut self.ctx, proj_context_create()) of lines 470, 517
\* and 528: the context the builder holds from then on.
Placeholder == Len(native) + 1

\* A replace that hands out the new value and keeps the old one.
mem_keep(held, fresh) == [taken |-> fresh, kept |-> held]

\* std::mem::replace(&mut self.ctx, fresh): the value taken out and the one
\* the builder keeps.
mem_replace(held, fresh) == [taken |-> held, kept |-> fresh]

\* ProjBuilder::proj (lines 469-472).
builder_proj(definition, created) ==
    /\ Quiet
    /\ builder.ctx # 0
    /\ ContextsMade < MaxContexts
    /\ Return(DropBuilder(mem_replace(builder.ctx, Placeholder).kept,
                          transform_string(mem_replace(builder.ctx, Placeholder).taken,
                                           definition, created,
                                           Append(native, Native("ctx")),
                                           Append(calls, Call("proj_context_create",
                                                              Placeholder, 0)))),
              <<definition>>)
    /\ builder' = [ctx |-> 0, moved |-> builder.ctx]
    /\ UNCHANGED <<netVars, opVars, rcVars, strVars>>

\* ProjBuilder::proj_known_crs (lines 511-519).
builder_proj_known_crs(from, to, area, created, normalisedOk) ==
    /\ Quiet
    /\ builder.ctx # 0
    /\ ContextsMade < MaxContexts
    /\ Return(DropBuilder(mem_replace(builder.ctx, Placeholder).kept,
                          transform_epsg(mem_replace(builder.ctx, Placeholder).taken,
                                         from, to, area, created,
                                         normalisedOk,
                                         Append(native, Native("ctx")),
                                         Append(calls, Call("proj_context_create",
                                                            Placeholder, 0)))),
              <<from, to>>)
    /\ builder' = [ctx |-> 0, moved |-> builder.ctx]
    /\ UNCHANGED <<netVars, opVars, rcVars, strVars>>

\* ProjBuilder::proj_create_crs_to_crs_from_pj (lines 521-530).
builder_proj_create_crs_to_crs_from_pj(source_crs, target_crs, area, options, created) ==
    /\ Quiet
    /\ builder.ctx # 0
    /\ IsLive(source_crs) /\ IsLive(target_crs)
    /\ ContextsMade < MaxContexts
    /\ Return(DropBuilder(mem_replace(builder.ctx, Placeholder).kept,
                          crs_to_crs_from_pj(mem_replace(builder.ctx, Placeholder).taken,
                                             source_crs, target_crs, area,
                                             options, created,
                                             Append(native, Native("ctx")),
                                             Append(calls, Call("proj_context_create",
                                                                Placeholder, 0)))),
              options.v)
    /\ builder' = [ctx |-> 0, moved |-> builder.ctx]
    /\ UNCHANGED <<netVars, opVars, rcVars, strVars>>

\* A ProjBuilder goes out of scope unused.
builder_drop ==
    /\ Quiet
    /\ builder.ctx # 0
    /\ native' = Apply(Call("proj_context_destroy", builder.ctx, 0), native)
    /\ calls' = calls \o << Call("proj_context_destroy", builder.ctx, 0),
                            Call("proj_cleanup", 0, 0) >>
    /\ builder' = NoBuilder
    /\ UNCHANGED <<projs, result>>
    /\ UNCHANGED <<netVars, opVars, rcVars, strVars>>

ProjNext ==
    \/ \E d \in Definitions, created \in BOOLEAN : proj_new(d, created)
    \/ \E from \in CrsNames, to \in CrsNames, area \in BOOLEAN,
          created \in BOOLEAN, normalisedOk \in BOOLEAN :
          proj_new_known_crs(from, to, area, created, normalisedOk)
    \/ \E p \in DOMAIN projs : drop_step(p)

\* No Proj was dropped yet.
AllLive == \A p \in DOMAIN projs : IsLive(p)

\* Proj values made from strings, and from them the Proj values made by
\* cloning a context, with option strings with and without a NUL byte and
\* with the native creation failing; then the drops, in every order.
BuildNext ==
    \/ AllLive /\ proj_new("+proj=merc", TRUE)
    \/ \E self \in DOMAIN projs, target \in DOMAIN projs, options \in OptionLists :
          AllLive /\ create_crs_to_crs_from_pj(self, target, FALSE, options, TRUE)
    \/ \E self \in DOMAIN projs, target \in DOMAIN projs :
          AllLive /\ create_crs_to_crs_from_pj(self, target, TRUE, None, FALSE)
    \/ \E self \in DOMAIN projs, created \in BOOLEAN :
          AllLive /\ coordinate_metadata_create(self, created)
    \/ \E p \in DOMAIN projs : drop(p)

\* A ProjBuilder that is made, configured and consumed or dropped, the Proj
\* values it makes from, and the drops.
BuilderNext ==
    \/ proj_new("+proj=merc", TRUE)
    \/ builder_new
    \/ \E e \in Endpoints : set_url_endpoint(e)
    \/ \E d \in Definitions, created \in BOOLEAN : builder_proj(d, created)
    \/ \E to \in CrsNames : builder_proj_known_crs("EPSG:4326", to, TRUE, TRUE, TRUE)
    \/ \E source \in DOMAIN projs, target \in DOMAIN projs, options \in OptionLists :
          builder_proj_create_crs_to_crs_from_pj(source, target, TRUE, options, TRUE)
    \/ builder_drop
    \/ \E p \in DOMAIN projs : drop(p)

----------------------------------------------------------------------------
(* Transformations: proj.rs lines 908-951, 987-1022, 1056-1099, 1135-1250 *)

\* f64::INFINITY, the t every coordinate is padded with, and HUGE_VAL, the
\* coordinate the engine returns for an input it cannot transform.
Infinity == 999999
HugeVal == 888888

\* The points a caller gives, and the slices of them.
Coordinates == {[x |-> x, y |-> y] : x \in {0, 1}, y \in {0, 1}}
Slices == UNION {[1..n -> Coordinates] : n \in 0..MaxPoints}

\* The native engine: proj_trans of one PJ_COORD in a direction.  The engine
\* is a function of the direction and of all four components; it cannot
\* transform every coordinate, and sets the error flag to a code when it
\* cannot, leaving the flag alone when it can.
EngineErrno(dir, c) ==
    IF dir = "FWD"
    THEN (IF c.x >= c.y THEN 0 ELSE 2049)
    ELSE (IF c.x <= c.y THEN 0 ELSE 2050)
Engine(dir, c) ==
    IF EngineErrno(dir, c) # 0
    THEN [x |-> HugeVal, y |-> HugeVal, z |-> HugeVal, t |-> HugeVal]
    ELSE [x |-> (IF dir = "FWD" THEN 2 * c.x + 1 ELSE c.x + 4) + c.z,
          y |-> c.y + (IF c.t = Infinity THEN 10 ELSE 20),
          z |-> c.z, t |-> c.t]
proj_trans(dir, c, flag) ==
    [coord |-> Engine(dir, c),
     errno |-> IF EngineErrno(dir, c) # 0 THEN EngineErrno(dir, c) ELSE flag]

RECURSIVE proj_trans_array(_, _, _)
\* proj_trans_array: every coordinate transformed in place, in order.
proj_trans_array(dir, cs, flag) ==
    IF cs = << >> THEN [coords |-> << >>, errno |-> flag]
    ELSE LET first == proj_trans(dir, Head(cs), flag)
             rest == proj_trans_array(dir, Tail(cs), first.errno)
         IN  [coords |-> <<first.coord>> \o rest.coords, errno |-> rest.errno]

\* A reset that leaves the flag as it was.
proj_errno_kept(flag) == flag

\* proj_errno_reset: the flag afterwards.
proj_errno_reset(flag) == 0

\* proj_errno_string and error_message (lines 188-193), taken to yield a
\* message for every code.
error_message(code) == "errno " \o NatToString(code)

\* The PJ_XYZT / PJ_LPZT built from a point (lines 928-933, 1001-1006,
\* 1209-1216).
Pad(point) == [x |-> point.x, y |-> point.y, z |-> 0, t |-> Infinity]
\* Coord::from_xy(trans.xy.x, trans.xy.y).
FromXY(c) == [x |-> c.x, y |-> c.y]

Direction(inverse) == IF inverse THEN "INV" ELSE "FWD"

NoProjError == [kind |-> "none", msg |-> ""]
Conversion(msg) == [kind |-> "Conversion", msg |-> msg]
Projection(msg) == [kind |-> "Projection", msg |-> msg]

\* What a transformation was given and returned: the operation and its
\* inverse flag, the input points, the flag on entry, the error code read
\* after the native call and the native return status, the result, and the
\* caller's slice after an array call.
Outcome(o, inverse, input, stale, err, trans, ok, e, value, points) ==
    [op |-> o, inverse |-> inverse, input |-> input, stale |-> stale,
     errno |-> err, trans |-> trans, ok |-> ok, error |-> e, value |-> value,
     points |-> points]

OpInit ==
    /\ pjErrno = 0
    /\ outcome = Outcome("none", FALSE, << >>, 0, 0, 0, TRUE, NoProjError, << >>, << >>)

\* Proj::project (lines 908-951).
project(point, inverse) ==
    /\ LET inv == Direction(inverse)
           trans == proj_trans(inv, Pad(point), proj_errno_reset(pjErrno))
           err == trans.errno
       IN  /\ pjErrno' = err
           /\ outcome' = IF err = 0
                         THEN Outcome("project", inverse, <<point>>, pjErrno, err, 0,
                                      TRUE, NoProjError, <<FromXY(trans.coord)>>, << >>)
                         ELSE Outcome("project", inverse, <<point>>, pjErrno, err, 0,
                                      FALSE, Projection(error_message(err)), << >>, << >>)
    /\ UNCHANGED areaOfUse
    /\ UNCHANGED <<netVars, projVars, rcVars, strVars>>

\* Proj::convert (lines 987-1022).
convert(point) ==
    /\ LET trans == proj_trans("FWD", Pad(point), proj_errno_reset(pjErrno))
           err == trans.errno
       IN  /\ pjErrno' = err
           /\ outcome' = IF err = 0
                         THEN Outcome("convert", FALSE, <<point>>, pjErrno, err, 0,
                                      TRUE, NoProjError, <<FromXY(trans.coord)>>, << >>)
                         ELSE Outcome("convert", FALSE, <<point>>, pjErrno, err, 0,
                                      FALSE, Conversion(error_message(err)), << >>, << >>)
    /\ UNCHANGED areaOfUse
    /\ UNCHANGED <<netVars, projVars, rcVars, strVars>>

\* The return status of proj_trans_array.
Statuses2 == {0, 2049}

\* A batch that is taken to have succeeded on the error code alone.
BatchOkOnErrno(err, trans) == err = 0

\* The test array_general makes of the error code and the return status
\* (line 1235).
BatchOk(err, trans) == err = 0 /\ trans = 0

\* The error array_general returns (line 1248).
ArrayError(kind, err) == Projection(error_message(err))

\* A batch that transforms the caller's slice in place.
SliceInPlace(pts, coords) == [i \in DOMAIN pts |-> FromXY(coords[i])]

\* The caller's slice after a batch that failed: array_general transformed
\* its own Vec<PJ_COORD> (lines 1204-1221) and returns at line 1248 without
\* writing to points.
SliceOnFailure(pts, coords) == pts

\* A batch that always runs forward.
ArrayDirectionForward(kind, inverse) == "FWD"

\* The direction array_general hands to proj_trans_array (lines 1223-1233).
ArrayDirection(kind, inverse) ==
    IF kind = "Conversion" THEN "FWD" ELSE Direction(inverse)

\* Proj::array_general (lines 1186-1250) on the caller's slice pts; kind:
\* "Conversion" or "Projection"; status: what proj_trans_array returns.
array_general(name, pts, kind, inverse, status) ==
    /\ LET pj == [i \in DOMAIN pts |-> Pad(pts[i])]
           done == proj_trans_array(ArrayDirection(kind, inverse), pj,
                                    proj_errno_reset(pjErrno))
           err == done.errno
           trans == status
       IN  /\ pjErrno' = err
           /\ IF BatchOk(err, trans)
              THEN outcome' = Outcome(name, inverse, pts, pjErrno, err, trans, TRUE,
                                      NoProjError,
                                      [i \in DOMAIN pts |-> FromXY(done.coords[i])],
                                      [i \in DOMAIN pts |-> FromXY(done.coords[i])])
              ELSE outcome' = Outcome(name, inverse, pts, pjErrno, err, trans, FALSE,
                                      ArrayError(kind, err), << >>,
                                      SliceOnFailure(pts, done.coords))
    /\ UNCHANGED areaOfUse
    /\ UNCHANGED <<netVars, projVars, rcVars, strVars>>

\* Proj::convert_array (lines 1056-1062).
convert_array(pts, status) ==
    array_general("convert_array", pts, "Conversion", FALSE, status)

\* Proj::project_array (lines 1089-1099).
project_array(pts, inverse, status) ==
    array_general("project_array", pts, "Projection", inverse, status)

\* The bounds a caller gives: [left, bottom, right, top].
BoundsGiven == {<<0, 0, 1, 1>>, <<1, 0, 0, 1>>}

\* proj_trans_bounds: the engine cannot transform bounds whose left exceeds
\* their right.
BoundsErrno(b) == IF b[1] <= b[3] THEN 0 ELSE 2050

\* Proj::transform_bounds (lines 1135-1181).
transform_bounds(b) ==
    /\ LET flag == proj_errno_reset(pjErrno)
           err == IF BoundsErrno(b) # 0 THEN BoundsErrno(b) ELSE flag
       IN  /\ pjErrno' = err
           /\ outcome' = IF err = 0
                         THEN Outcome("transform_bounds", FALSE, b, pjErrno, err, 0, TRUE,
                                      NoProjError, [i \in 1..4 |-> 2 * b[i] + 1], << >>)
                         ELSE Outcome("transform_bounds", FALSE, b, pjErrno, err, 0, FALSE,
                                      Conversion(error_message(err)), << >>, << >>)
    /\ UNCHANGED areaOfUse
    /\ UNCHANGED <<netVars, projVars, rcVars, strVars>>

\* The bound proj_get_area_of_use writes for a bound it does not know
\* (line 840).
Sentinel == -1000

\* What proj_get_area_of_use can hand back: its return value, the four
\* bounds in degrees, and the area name: a null pointer, a name, or bytes
\* that are not UTF-8.
AreaStatuses == {0, 1}
Degrees == {Sentinel, 0, 45}
NullName == "<null>"
NotUtf8 == "<not utf-8>"
AreaNames == {NullName, "World", NotUtf8}

NoArea == [some |-> FALSE, west |-> 0, south |-> 0, east |-> 0, north |-> 0]
Area(west, south, east, north) ==
    [some |-> TRUE, west |-> west, south |-> south, east |-> east, north |-> north]

\* The Option<Area> of lines 840-850.
AreaFrom(west, south, east, north) ==
    IF west # Sentinel /\ south # Sentinel /\ east # Sentinel /\ north # Sentinel
    THEN Area(west, south, east, north)
    ELSE NoArea

\* What area_of_use was handed and what it returned.
AreaOutcome(res, bounds, name, ok, e, area, areaName) ==
    [asked |-> TRUE, res |-> res, bounds |-> bounds, name |-> name,
     ok |-> ok, error |-> e, area |-> area, areaName |-> areaName]

\* No area of use was asked for yet.
AreaInit ==
    areaOfUse = [AreaOutcome(0, <<0, 0, 0, 0>>, NullName, FALSE, "", NoArea, NullName)
                    EXCEPT !.asked = FALSE]

\* Proj::area_of_use (lines 804-853); res, the bounds and name: what
\* proj_get_area_of_use returned and wrote.
area_of_use(res, west, south, east, north, name) ==
    /\ areaOfUse' =
          IF res = 0
          THEN AreaOutcome(res, <<west, south, east, north>>, name,
                           FALSE, "UnknownAreaOfUse", NoArea, NullName)
          ELSE IF name = NotUtf8
          THEN AreaOutcome(res, <<west, south, east, north>>, name,
                           FALSE, "Utf8Error", NoArea, NullName)
          ELSE AreaOutcome(res, <<west, south, east, north>>, name,
                           TRUE, "", AreaFrom(west, south, east, north), name)
    /\ UNCHANGED <<pjErrno, outcome>>
    /\ UNCHANGED <<netVars, projVars, rcVars, strVars>>

\* The area of use asked of one Proj, with every answer of the engine.
AreaNext ==
    \E res \in AreaStatuses, west \in Degrees, south \in Degrees, east \in Degrees,
       north \in Degrees, name \in AreaNames :
       area_of_use(res, west, south, east, north, name)

\* Transformations on one Proj, in any order.
TransformNext ==
    \/ \E point \in Coordinates, inverse \in BOOLEAN : project(point, inverse)
    \/ \E point \in Coordinates : convert(point)
    \/ \E pts \in Slices, status \in Statuses2 : convert_array(pts, status)
    \/ \E pts \in Slices, inverse \in BOOLEAN, status \in Statuses2 :
          project_array(pts, inverse, status)
    \/ \E b \in BoundsGiven : transform_bounds(b)

----------------------------------------------------------------------------
(* Pj on a shared ThreadContext: pj.rs lines 7-77, context.rs lines 7-68 *)

\* The Rc<ThreadContext>: whether ThreadContext::new ran, the strong count,
\* how many of the handles are held by callers (the others by Pj values),
\* the Rc::clone calls so far, and whether the engine has network access
\* enabled on the context.
RcInit ==
    /\ ctxRc = [created |-> FALSE, strong |-> 0, held |-> 0, clones |-> 0,
                network |-> FALSE]
    /\ networkSet = [asked |-> FALSE, enable |-> FALSE, before |-> FALSE,
                     returned |-> FALSE]
    /\ pjs = << >>
    /\ rcLog = << >>
    /\ pjResult = [op |-> "none", inputs |-> << >>, ended |-> "Ok", calls |-> << >>]

\* A native call on the context (pj = 0) or on pipeline pj.
RcCall(f, pj) == [f |-> f, pj |-> pj]

\* Rc::new(ThreadContext::new()) (context.rs lines 10-16).
thread_context_new ==
    /\ ~ctxRc.created
    /\ ctxRc' = [created |-> TRUE, strong |-> 1, held |-> 1, clones |-> 0,
                 network |-> FALSE]
    /\ rcLog' = Append(rcLog, RcCall("proj_context_create", 0))
    /\ UNCHANGED <<pjs, pjResult>>
    /\ UNCHANGED networkSet
    /\ UNCHANGED <<netVars, projVars, opVars, strVars>>

\* Rc::clone of a handle a caller holds.
rc_clone ==
    /\ ctxRc.held > 0
    /\ ctxRc.clones < MaxClones
    /\ ctxRc' = [ctxRc EXCEPT !.strong = @ + 1, !.held = @ + 1, !.clones = @ + 1]
    /\ UNCHANGED <<pjs, rcLog, pjResult>>
    /\ UNCHANGED networkSet
    /\ UNCHANGED <<netVars, projVars, opVars, strVars>>

\* Drop for ThreadContext (context.rs lines 62-68): the native calls it
\* makes.
ThreadContextDrop == << RcCall("proj_context_destroy", 0) >>

\* A handle is dropped: the strong count goes down by one and the
\* ThreadContext is dropped with the last handle.
RcDrop(strong) == IF strong = 1 THEN ThreadContextDrop ELSE << >>

\* A caller drops a handle it holds.
rc_drop ==
    /\ ctxRc.held > 0
    /\ ctxRc' = [ctxRc EXCEPT !.strong = @ - 1, !.held = @ - 1]
    /\ rcLog' = rcLog \o RcDrop(ctxRc.strong)
    /\ UNCHANGED <<pjs, pjResult>>
    /\ UNCHANGED networkSet
    /\ UNCHANGED <<netVars, projVars, opVars, strVars>>

\* Pj::from_pj_ptr (pj.rs lines 38-48) with the handle ctx it was given and
\* the pointer created (null or the new pipeline), called by constructor o
\* on inputs after the native calls log: the Pj keeps the handle, or the error is built from the context's
\* errno and the handle is dropped on return.
from_pj_ptr(o, inputs, created, log) ==
    IF created
    THEN /\ pjs' = Append(pjs, [alive |-> TRUE])
         /\ ctxRc' = [ctxRc EXCEPT !.held = @ - 1]
         /\ rcLog' = log
         /\ pjResult' = [op |-> o, inputs |-> inputs, ended |-> "Ok",
                         calls |-> SubSeq(log, Len(rcLog) + 1, Len(log))]
    ELSE /\ pjs' = pjs
         /\ ctxRc' = [ctxRc EXCEPT !.strong = @ - 1, !.held = @ - 1]
         /\ rcLog' = log \o << RcCall("proj_context_errno", 0),
                               RcCall("proj_context_errno_string", 0) >>
                         \o RcDrop(ctxRc.strong)
         /\ pjResult' = [op |-> o, inputs |-> inputs, ended |-> "ProjError",
                         calls |-> SubSeq(log, Len(rcLog) + 1, Len(log))
                                   \o << RcCall("proj_context_errno", 0),
                                         RcCall("proj_context_errno_string", 0) >>]

\* Pj::from_definition (pj.rs lines 13-18), given a handle a caller held.
from_definition(definition, created) ==
    /\ ctxRc.held > 0
    /\ IF HasNul(definition)
       THEN /\ ctxRc' = [ctxRc EXCEPT !.strong = @ - 1, !.held = @ - 1]
            /\ rcLog' = rcLog \o RcDrop(ctxRc.strong)
            /\ pjResult' = [op |-> "from_definition", inputs |-> <<definition>>,
                            ended |-> "ArgumentNulError", calls |-> << >>]
            /\ UNCHANGED pjs
       ELSE from_pj_ptr("from_definition", <<definition>>, created,
                        Append(rcLog, RcCall("proj_create",
                                             IF created THEN Len(pjs) + 1 ELSE 0)))
    /\ UNCHANGED networkSet
    /\ UNCHANGED <<netVars, projVars, opVars, strVars>>

\* Pj::from_crs_to_crs (pj.rs lines 20-36), given a handle a caller held; a
\* NUL byte in a CRS panics in unwrap, and the handle is dropped as the
\* panic unwinds.
from_crs_to_crs(source_crs, target_crs, created) ==
    /\ ctxRc.held > 0
    /\ IF HasNul(source_crs) \/ HasNul(target_crs)
       THEN /\ ctxRc' = [ctxRc EXCEPT !.strong = @ - 1, !.held = @ - 1]
            /\ rcLog' = rcLog \o RcDrop(ctxRc.strong)
            /\ pjResult' = [op |-> "from_crs_to_crs", inputs |-> <<source_crs, target_crs>>,
                            ended |-> "panic", calls |-> << >>]
            /\ UNCHANGED pjs
       ELSE from_pj_ptr("from_crs_to_crs", <<source_crs, target_crs>>, created,
                        Append(rcLog, RcCall("proj_create_crs_to_crs",
                                             IF created THEN Len(pjs) + 1 ELSE 0)))
    /\ UNCHANGED networkSet
    /\ UNCHANGED <<netVars, projVars, opVars, strVars>>

\* A drop of a Pj that destroys the context with the pipeline.
PjDropWithContext(pj) ==
    << RcCall("proj_destroy", pj), RcCall("proj_context_destroy", 0) >>

\* Drop for Pj (pj.rs lines 71-77): the native calls it makes.
PjDrop(pj) == << RcCall("proj_destroy", pj) >>

\* Pj pj goes out of scope: its drop runs, then its field ctx is dropped.
pj_drop(pj) ==
    /\ pjs[pj].alive
    /\ pjs' = [pjs EXCEPT ![pj].alive = FALSE]
    /\ ctxRc' = [ctxRc EXCEPT !.strong = @ - 1]
    /\ rcLog' = rcLog \o PjDrop(pj) \o RcDrop(ctxRc.strong)
    /\ UNCHANGED pjResult
    /\ UNCHANGED networkSet
    /\ UNCHANGED <<netVars, projVars, opVars, strVars>>

\* C int from bool, and the test against PROJ_SYS_TRUE (context.rs line 4).
PROJ_SYS_TRUE == 1
c_int_from(b) == IF b THEN 1 ELSE 0

\* proj_context_set_enable_network(ctx, enable): the engine switches network
\* access to `after`, as asked or not, and returns the state it is left
\* in (proj.rs lines 364-376).
proj_context_set_enable_network(enable, after) == c_int_from(after)

\* ThreadContext::set_enable_network (context.rs lines 34-39), on a context
\* only the caller holds; after: the state the engine is left in.
set_enable_network(enable, after) ==
    /\ ctxRc.created /\ ctxRc.strong = 1 /\ ctxRc.held = 1
    /\ ctxRc' = [ctxRc EXCEPT !.network = after]
    /\ networkSet' =
          [asked |-> TRUE, enable |-> enable, before |-> ctxRc.network,
           returned |-> proj_context_set_enable_network(c_int_from(enable), after)
                           = PROJ_SYS_TRUE]
    /\ UNCHANGED <<pjs, rcLog, pjResult>>
    /\ UNCHANGED <<netVars, projVars, opVars, strVars>>

\* One shared context, cloned, given to Pj constructors that succeed or
\* fail, and the handles and the Pj values dropped in every order.
RcNext ==
    \/ thread_context_new
    \/ rc_clone
    \/ rc_drop
    \/ \E d \in Definitions, created \in BOOLEAN : from_definition(d, created)
    \/ \E s \in CrsNames, t \in CrsNames, created \in BOOLEAN :
          from_crs_to_crs(s, t, created)
    \/ \E pj \in DOMAIN pjs : pj_drop(pj)
    \/ \E enable \in BOOLEAN, after \in BOOLEAN : set_enable_network(enable, after)

----------------------------------------------------------------------------
(* Option arrays: proj.rs lines 258-278, 1256-1386 *)

\* An Option: no value, or the set of its one value.
Absent == {}
Given(v) == {v}
Unwrap(o) == CHOOSE v \in o : TRUE

\* A pointer to a C string, and the null pointer.
PtrTo(s) == <<s>>
NullPtr == << >>

\* The array a native call is handed: a null pointer, or the pointers it
\* holds from its first element to its last.
NullArray == [null |-> TRUE, ptrs |-> << >>]
ArrayOf(ptrs) == [null |-> FALSE, ptrs |-> ptrs]

\* opts.iter().map(|cs| cs.as_ptr()).collect().
AsPtrs(opts) == [i \in DOMAIN opts |-> PtrTo(opts[i])]

YesNo(b) == IF b THEN "YES" ELSE "NO"

\* What an export or a creation handed the engine: the KEY=VALUE strings
\* selected, whether the native call was made, and its options array.
Handed(o, selected, called, arr) ==
    [op |-> o, selected |-> selected, called |-> called, array |-> arr]

HandedInit == handed = Handed("none", << >>, FALSE, NullArray)

\* The values the callers choose among.
OptionBools == {Absent, Given(TRUE), Given(FALSE)}
Widths == {Absent, Given(2)}
Schemas == {Absent, Given("s.json"), Given("s" \o NUL)}
Axes == {Absent, Given("Auto"), Given("Yes"), Given("No")}

\* Proj::to_projjson (lines 1256-1290) up to the native call.
to_projjson(multiline, indentation_width, schema) ==
    /\ LET opts ==
              (IF multiline # Absent
               THEN << "MULTILINE=" \o YesNo(Unwrap(multiline)) >> ELSE << >>)
              \o (IF indentation_width # Absent
                  THEN << "INDENTATION_WIDTH=" \o NatToString(Unwrap(indentation_width)) >>
                  ELSE << >>)
              \o (IF schema # Absent THEN << "SCHEMA=" \o Unwrap(schema) >> ELSE << >>)
       IN  handed' = IF \E i \in DOMAIN opts : HasNul(opts[i])
                     THEN Handed("to_projjson", opts, FALSE, NullArray)
                     ELSE Handed("to_projjson", opts, TRUE,
                                 ArrayOf(Append(AsPtrs(opts), NullPtr)))
    /\ UNCHANGED array
    /\ UNCHANGED <<netVars, projVars, opVars, rcVars>>

\* WktOutputAxis as OUTPUT_AXIS is given it (lines 1316-1320).
AxisName(output_axis) ==
    CASE output_axis = "Auto" -> "AUTO"
      [] output_axis = "Yes" -> "YES"
      [] output_axis = "No" -> "NO"

\* The option strings of a WktOptions (lines 1298-1345).
WktOpts(options) ==
    (IF options.multiline # Absent
     THEN << "MULTILINE=" \o YesNo(Unwrap(options.multiline)) >> ELSE << >>)
    \o (IF options.indentation_width # Absent
        THEN << "INDENTATION_WIDTH=" \o NatToString(Unwrap(options.indentation_width)) >>
        ELSE << >>)
    \o (IF options.output_axis # Absent
        THEN << "OUTPUT_AXIS=" \o AxisName(Unwrap(options.output_axis)) >> ELSE << >>)
    \o (IF options.strict # Absent
        THEN << "STRICT=" \o YesNo(Unwrap(options.strict)) >> ELSE << >>)
    \o (IF options.allow_ellipsoidal_height_as_vertical_crs # Absent
        THEN << "ALLOW_ELLIPSOIDAL_HEIGHT_AS_VERTICAL_CRS="
                \o YesNo(Unwrap(options.allow_ellipsoidal_height_as_vertical_crs)) >>
        ELSE << >>)
    \o (IF options.allow_linunit_node # Absent
        THEN << "ALLOW_LINUNIT_NODE=" \o YesNo(Unwrap(options.allow_linunit_node)) >>
        ELSE << >>)

WktOptionsGiven ==
    [multiline : OptionBools, indentation_width : Widths, output_axis : Axes,
     strict : OptionBools, allow_ellipsoidal_height_as_vertical_crs : OptionBools,
     allow_linunit_node : OptionBools]

\* Proj::as_wkt (lines 1292-1386) up to the native call; options: Absent or
\* a WktOptions.
as_wkt(options) ==
    /\ LET opts == IF options = Absent THEN << >> ELSE WktOpts(Unwrap(options))
           options_str == IF options = Absent \/ opts = << >> THEN Absent
                          ELSE Given(opts)
           opts_ptrs == IF options_str = Absent THEN Absent
                        ELSE Given(AsPtrs(Unwrap(options_str)))
       IN  handed' = Handed("as_wkt", opts, TRUE,
                            IF opts_ptrs = Absent THEN NullArray
                            ELSE ArrayOf(Unwrap(opts_ptrs)))
    /\ UNCHANGED array
    /\ UNCHANGED <<netVars, projVars, opVars, rcVars>>

\* The options array of crs_to_crs_from_pj (lines 258-278), with the
\* options of OptionLists.
crs_to_crs_options(options) ==
    /\ handed' = IF options.some /\ \E i \in DOMAIN options.v : HasNul(options.v[i])
                 THEN Handed("crs_to_crs_from_pj", options.v, FALSE, NullArray)
                 ELSE IF options.some
                 THEN Handed("crs_to_crs_from_pj", options.v, TRUE,
                             ArrayOf(Append(AsPtrs(options.v), NullPtr)))
                 ELSE Handed("crs_to_crs_from_pj", << >>, TRUE, ArrayOf(<<NullPtr>>))
    /\ UNCHANGED array
    /\ UNCHANGED <<netVars, projVars, opVars, rcVars>>

\* The exports and the creation, with every combination of options.
OptionsNext ==
    \/ \E multiline \in OptionBools, indentation_width \in Widths, schema \in Schemas :
          to_projjson(multiline, indentation_width, schema)
    \/ \E options \in {Absent} \cup {Given(o) : o \in WktOptionsGiven} : as_wkt(options)
    \/ \E options \in OptionLists : crs_to_crs_options(options)

----------------------------------------------------------------------------
(* CStringArray: cstring_array.rs lines 20-66 *)

\* A CString: its bytes before the terminating NUL, and the address of its
\* buffer, which as_ptr returns; 0 is the null pointer.
CStringAt(addr, bytes) == [addr |-> addr, bytes |-> bytes]

\* CStringArray::new (lines 29-34), with what the checks below need of the
\* calls made on it: their number, the strings accepted, and the last push:
\* its string, its result, and the fields before it.
ArrayInit ==
    array = [cstrings |-> << >>, ptrs |-> <<0>>, pushes |-> 0, accepted |-> << >>,
             s |-> "", result |-> "none", before |-> [cstrings |-> << >>, ptrs |-> <<0>>]]

\* Vec::insert(index, element), index counted from 0.
Insert(v, index, element) ==
    SubSeq(v, 1, index) \o <<element>> \o SubSeq(v, index + 1, Len(v))

\* An insertion after the last element.
InsertAtEnd(len) == len

\* Where push inserts the new pointer (line 45).
InsertIndex(len) == len - 1

\* The strings pushed.
PushStrings == {"KEY=VALUE", "AUTHORITY=EPSG", "ALLOW_BALLPARK=NO",
                "invalid" \o NUL \o "string"}

\* CStringArray::push (lines 39-48).
push(s) ==
    /\ array.pushes < MaxPushes
    /\ array' =
          IF HasNul(s)
          THEN [array EXCEPT !.pushes = @ + 1, !.s = s, !.result = "NulError",
                             !.before = [cstrings |-> array.cstrings, ptrs |-> array.ptrs]]
          ELSE LET cstring == CStringAt(Len(array.cstrings) + 1, s)
               IN  [cstrings |-> Append(array.cstrings, cstring),
                    ptrs |-> Insert(array.ptrs, InsertIndex(Len(array.ptrs)), cstring.addr),
                    pushes |-> array.pushes + 1,
                    accepted |-> Append(array.accepted, s),
                    s |-> s, result |-> "Ok",
                    before |-> [cstrings |-> array.cstrings, ptrs |-> array.ptrs]]
    /\ UNCHANGED handed
    /\ UNCHANGED <<netVars, projVars, opVars, rcVars>>

\* CStringArray::as_ptr (lines 52-65): a null pointer, or a pointer to ptrs.
as_ptr == IF array.cstrings = << >> THEN NullArray ELSE ArrayOf(array.ptrs)

ArrayNext == \E s \in PushStrings : push(s)

----------------------------------------------------------------------------
(* Specifications *)

Init == NetInit /\ ProjInit /\ OpInit /\ AreaInit /\ RcInit /\ HandedInit /\ ArrayInit

\* The network callbacks, driven by the engine and the server.
SpecRetry == Init /\ [][RetryNext]_vars
SpecHeaders == Init /\ [][HeadersNext]_vars
SpecCopy == Init /\ [][CopyNext]_vars

\* Proj values made and dropped.
SpecLifecycle == Init /\ [][ProjNext]_vars

\* Proj values made from strings and from other Proj values, and dropped.
SpecBuild == Init /\ [][BuildNext]_vars

\* Proj values made by a ProjBuilder.
SpecBuilder == Init /\ [][BuilderNext]_vars

\* Coordinates transformed by one Proj.
SpecTransform == Init /\ [][TransformNext]_vars

\* The area of use of one Proj.
SpecArea == Init /\ [][AreaNext]_vars

\* Pj values on one shared ThreadContext.
SpecRc == Init /\ [][RcNext]_vars

\* The options arrays handed to the engine.
SpecOptions == Init /\ [][OptionsNext]_vars

\* One CStringArray and the strings pushed to it.
SpecArray == Init /\ [][ArrayNext]_vars

----------------------------------------------------------------------------
(* Properties of the network callbacks *)

\* An open or a read-range callback has returned and no callback was called
\* since: reqlog, sleeps, retries, resp, streak and buffer are that callback's.
Completed == op = "none" /\ last.op \in {"open", "read"}

\* The re-requests the callback issued: its requests but the initial one.
ReRequests == Len(reqlog) - 1

\* C1: whatever the responses, the retry loop reissues the ranged request at
\* most MAX_RETRIES (8) times after the initial request, and so has issued no
\* more than 8 re-requests when it gives up on 9 or more retriable responses.
C1_AtMostMaxRetries == Len(reqlog) <= 1 + MAX_RETRIES

C3_ClientErrorFailsAtOnce ==
    [][(/\ pc = "call"
        /\ resp = NoResponse
        /\ resp' # NoResponse
        /\ resp'.status \in CLIENT_ERROR_CODES \ RETRY_CODES)
       => (/\ op' = "none"
           /\ ~last'.ok
           /\ last'.eh = "err"
           /\ last'.err = DownloadError(resp'.status, req.url, 0)
           /\ sleeps' = << >>
           /\ reqlog' = reqlog
           /\ Len(reqlog) = 1)]_vars

\* A 404 to the initial request: one request, no sleep, retry count 0.
C3_Witness ==
    /\ Completed
    /\ resp.status = 404
    /\ streak = 0
    /\ Len(reqlog) = 1
    /\ sleeps = << >>
    /\ last.err = DownloadError(404, req.url, 0)

\* C4: error_handler returns Ok only when the last response is a 2xx, and
\* otherwise DownloadError with that response's status, the request URL and
\* a retry count that is the number of re-requests issued: at most
\* MAX_RETRIES (8), and 0 when the initial response was not retriable.
C4_DownloadErrorCarriesRetries ==
    (Completed /\ last.eh \in {"ok", "err"})
    => /\ last.eh = "ok" <=> resp.status \in 200..299
       /\ last.eh = "err" =>
             /\ last.err = DownloadError(resp.status, req.url, ReRequests)
             /\ last.err.retries <= MAX_RETRIES
             /\ streak = 0 => last.err.retries = 0

\* C5: every pointer get-header-value returned is freed exactly once and only
\* at close: not freed while its handle is open, freed once when it is closed.
C5_PointersFreedOnceAtClose ==
    \A i \in DOMAIN heap :
        heap[i].frees = IF hd # NoHandle /\ heap[i].handle = handleId THEN 0 ELSE 1

\* C6: when open or read-range fails, the bytes written to out_error_string,
\* the NUL included, do not exceed error_string_max_size (128); the handle
\* returned is null and the size returned is 0.
C6_ErrorStringFits ==
    (last.op \in {"open", "read"} /\ ~last.ok)
    => /\ last.errBytes <= ErrorStringMaxSize
       /\ last.handle = 0
       /\ last.size = 0

\* C7: the headers of a live handle are those of the response to the most
\* recent successful ranged request on it (names in lower case, the last
\* value of a name, values that are strings), and its URL is the one it was
\* opened with: a successful read-range replaces them, a failing one leaves
\* them alone.
C7_CachedHeadersAreLastSuccess ==
    hd # NoHandle
    => /\ hd.url = served.url
       /\ \A i \in DOMAIN served.headers :
             LET n == to_lowercase(served.headers[i][1])
                 later == {j \in DOMAIN served.headers :
                              /\ j > i
                              /\ to_lowercase(served.headers[j][1]) = n
                              /\ ToStrOk(served.headers[j][2])}
             IN  ToStrOk(served.headers[i][2])
                 => /\ n \in DOMAIN hd.headers
                    /\ later = {} => hd.headers[n] = served.headers[i][2]
       /\ \A n \in DOMAIN hd.headers :
             \E i \in DOMAIN served.headers :
                 /\ to_lowercase(served.headers[i][1]) = n
                 /\ ToStrOk(served.headers[i][2])

\* A read-range that exhausted its retries on a handle that holds an ETag.
C7_Witness ==
    /\ Completed
    /\ last.op = "read"
    /\ last.err.kind = "DownloadError"
    /\ retries > 0
    /\ hd # NoHandle
    /\ "etag" \in DOMAIN hd.headers

\* Two names that differ in the case of their letters at most.
SameIgnoringCase(a, b) ==
    /\ Len(a) = Len(b)
    /\ \A i \in 1..Len(a) : LowerChar(Char(a, i)) = LowerChar(Char(b, i))

\* C8: when get-header-value has returned and no callback was called since,
\* get-header-value returned a pointer to the value of the cached header
\* whose name is the requested one in any spelling of upper and lower case,
\* and a pointer to the empty string when no cached header has that name.
C8_CaseInsensitiveLookup ==
    (op = "none" /\ last.op = "get_header")
    => LET hits == {n \in DOMAIN hd.headers :
                       StringOk(req.name) /\ SameIgnoringCase(n, req.name)}
       IN  /\ last.ptr \in DOMAIN heap
           /\ hd.hptr = last.ptr
           /\ \A n \in hits : heap[last.ptr].val = hd.headers[n]
           /\ hits = {} => heap[last.ptr].val = ""

\* The engine asked for "ETAG" and got the value of the etag header.
C8_Witness ==
    /\ op = "none"
    /\ last.op = "get_header"
    /\ req.name = "ETAG"
    /\ last.ptr \in DOMAIN heap
    /\ heap[last.ptr].val # ""

\* The bytes of the caller's buffer that the copy wrote, and those of them
\* that are the bytes of the response body.
BytesCopied == Cardinality({i \in DOMAIN buffer : buffer[i] # Untouched})
BodyBytesWritten ==
    Cardinality({i \in DOMAIN buffer : i <= Len(resp.body) /\ buffer[i] = resp.body[i]})

\* C9: on a successful open or read-range, the bytes copied into the buffer
\* are at most min(Content-Length, size_to_read), and the size reported is the
\* number of body bytes written into the buffer.
C9_ReportedSizeIsBytesWritten ==
    (Completed /\ last.ok)
    => /\ BytesCopied <= Min(ContentLength(resp.headers), req.size)
       /\ BytesCopied <= req.size
       /\ last.size = BodyBytesWritten

----------------------------------------------------------------------------
(* Properties of Proj *)

\* The native calls of a drop in the order the claim gives them.
DropRank(f) ==
    CASE f = "proj_area_destroy" -> 1
      [] f = "proj_destroy" -> 2
      [] f = "proj_context_destroy" -> 3
      [] f = "proj_cleanup" -> 4
      [] OTHER -> 0

\* The handle each of them is due.
DropArg(p, f) ==
    CASE f = "proj_area_destroy" -> projs[p].area
      [] f = "proj_destroy" -> projs[p].c_proj
      [] f = "proj_context_destroy" -> projs[p].ctx
      [] OTHER -> 0

\* The calls a drop of p has to make.
DropDue(p) ==
    {"proj_destroy", "proj_context_destroy", "proj_cleanup"}
    \cup (IF projs[p].area # 0 THEN {"proj_area_destroy"} ELSE {})

CallsBy(p) == {i \in DOMAIN calls : calls[i].by = p}

\* C10: the drop of a Proj releases the area (if any), then the pipeline,
\* then the context, each once and with its own handle, and calls
\* proj_cleanup only after the pipeline and the context were destroyed.
C10_DropReleasesInOrder ==
    \A p \in DOMAIN projs :
        /\ \A i \in CallsBy(p) :
              /\ calls[i].f \in DropDue(p)
              /\ calls[i].arg = DropArg(p, calls[i].f)
              /\ \A f \in DropDue(p) :
                    DropRank(f) < DropRank(calls[i].f)
                    => \E j \in CallsBy(p) : j < i /\ calls[j].f = f
        /\ \A i \in CallsBy(p), j \in CallsBy(p) :
              i < j => DropRank(calls[i].f) < DropRank(calls[j].f)
        /\ Dropped(p)
           => /\ {calls[i].f : i \in CallsBy(p)} = DropDue(p)
              /\ \A h \in {projs[p].area, projs[p].c_proj, projs[p].ctx} \ {0} :
                    native[h].destroys = 1

\* A Proj with an area and a pipeline whose drop has finished.
C10_Witness ==
    \E p \in DOMAIN projs :
        /\ Dropped(p)
        /\ projs[p].area # 0
        /\ projs[p].c_proj # 0

\* The last constructor was given a string that holds a NUL byte.
NulGiven == \E i \in DOMAIN result.inputs : HasNul(result.inputs[i])

\* C11: a constructor given a definition, a CRS or an option string with an
\* embedded NUL byte fails with ArgumentNulError, and has made no native
\* call when it does.
C11_NulFailsBeforeNative ==
    NulGiven
    => /\ ~result.ok
       /\ result.err = "ArgumentNulError"
       /\ result.calls = << >>

\* The direction the last transformation ran in.
RanIn == IF outcome.op \in {"convert", "convert_array", "transform_bounds"}
         THEN "FWD" ELSE Direction(outcome.inverse)

\* C12: the error code a convert or project call reads is the one its own
\* transformation left, whatever the flag held on entry: the call succeeds
\* exactly when the engine can transform its coordinate, so a valid call that
\* follows a failed one on the same Proj succeeds.
C12_ErrorDoesNotOutliveItsCall ==
    outcome.op \in {"convert", "project"} =>
        /\ outcome.errno = EngineErrno(RanIn, Pad(outcome.input[1]))
        /\ outcome.ok <=> EngineErrno(RanIn, Pad(outcome.input[1])) = 0

\* A convert that succeeded on a Proj whose previous call had failed.
C12_Witness ==
    /\ outcome.op = "convert"
    /\ outcome.stale # 0
    /\ outcome.ok
    /\ outcome.value = <<FromXY(Engine("FWD", Pad(outcome.input[1])))>>

\* The operations that convert between coordinate reference systems.
ConversionOps == {"convert", "convert_array", "transform_bounds"}

\* C13: a transformation that reads a nonzero error code fails with the
\* decoded message of that code, as ProjError::Conversion from convert,
\* convert_array and transform_bounds and as ProjError::Projection from
\* project and project_array.
C13_ErrorKindFollowsOperation ==
    (outcome.op # "none" /\ outcome.errno # 0) =>
        /\ ~outcome.ok
        /\ outcome.error = IF outcome.op \in ConversionOps
                           THEN Conversion(error_message(outcome.errno))
                           ELSE Projection(error_message(outcome.errno))

\* The same, for every operation but convert_array.
ErrorKindOfOthers ==
    outcome.op # "convert_array" => C13_ErrorKindFollowsOperation

ArrayOps == {"convert_array", "project_array"}

\* C14: convert_array and project_array return Ok exactly when, after the
\* native batch call, the error code and the return status are both 0;
\* otherwise the whole call fails with an error, no element's result is
\* reported and the caller's slice is as it was given.
C14_BatchOkIffBothZero ==
    outcome.op \in ArrayOps =>
        /\ outcome.ok <=> (outcome.errno = 0 /\ outcome.trans = 0)
        /\ outcome.ok => outcome.error = NoProjError
        /\ ~outcome.ok => /\ outcome.error.kind # "none"
                          /\ outcome.value = << >>
                          /\ outcome.points = outcome.input

\* A batch of two coordinates that failed on the return status alone.
C14_Witness ==
    /\ outcome.op \in ArrayOps
    /\ Len(outcome.input) = 2
    /\ outcome.errno = 0
    /\ outcome.trans # 0
    /\ ~outcome.ok

\* What convert (FWD) or project returns for one point: the x and y of the
\* engine's result for the padded point (lines 928-947, 1001-1018).
Single(dir, point) == FromXY(proj_trans(dir, Pad(point), proj_errno_reset(0)).coord)

\* C15: after a batch call that succeeded, the caller's slice has the length
\* it had and holds at every position what the single call (convert for
\* convert_array, project with the same inverse flag for project_array)
\* returns for the coordinate that was at that position, and that single
\* call succeeds.
C15_BatchAgreesWithSingle ==
    (outcome.op \in ArrayOps /\ outcome.ok) =>
        /\ Len(outcome.points) = Len(outcome.input)
        /\ \A i \in DOMAIN outcome.input :
              /\ EngineErrno(RanIn, Pad(outcome.input[i])) = 0
              /\ outcome.points[i] = Single(RanIn, outcome.input[i])

\* An inverse project_array that succeeded on two different coordinates.
C15_Witness ==
    /\ outcome.op = "project_array"
    /\ outcome.inverse
    /\ outcome.ok
    /\ Len(outcome.input) = 2
    /\ outcome.input[1] # outcome.input[2]
    /\ outcome.points[1] # outcome.points[2]

\* The native calls that are handed a context to work in.
UsesContext == {"proj_context_clone", "proj_create", "proj_create_crs_to_crs",
                "proj_create_crs_to_crs_from_pj", "proj_coordinate_metadata_create",
                "proj_context_errno", "proj_context_errno_string",
                "proj_context_set_url_endpoint"}

\* No native call was handed a context that had been destroyed.
NoUseAfterDestroy ==
    \A i, j \in DOMAIN calls :
        (calls[i].f = "proj_context_destroy" /\ calls[j].f \in UsesContext
         /\ calls[j].arg = calls[i].arg) => j < i

\* Every construction so far produced a Proj.
AllProduced ==
    \A i \in DOMAIN native :
        native[i].kind = "ctx" => \E p \in DOMAIN projs : projs[p].ctx = i

\* C16: a Proj made by create_crs_to_crs_from_pj or coordinate_metadata_create
\* holds a context of its own, so no two Proj values share a context or a
\* pipeline; whatever the order of the drops, no native object is destroyed
\* twice, the context and the pipeline of a dropped Proj were destroyed once
\* and those of a live one not at all, no call is handed a destroyed
\* context, and once every Proj is dropped every native object they held was
\* destroyed once.
C16_ClonedContextIsOwned ==
    /\ \A p, q \in DOMAIN projs :
          p # q => /\ projs[p].ctx # projs[q].ctx
                   /\ projs[p].c_proj # projs[q].c_proj
    /\ \A i \in DOMAIN native : native[i].destroys <= 1
    /\ \A p \in DOMAIN projs :
          /\ native[projs[p].ctx].destroys = IF Dropped(p) THEN 1 ELSE 0
          /\ native[projs[p].c_proj].destroys = IF Dropped(p) THEN 1 ELSE 0
    /\ NoUseAfterDestroy
    /\ (AllProduced /\ \A p \in DOMAIN projs : Dropped(p)) =>
          \A i \in DOMAIN native : native[i].destroys = 1

\* A source, a target and the Proj made from them by
\* create_crs_to_crs_from_pj, dropped source first, result second, target
\* last.
C16_Witness ==
    /\ Len(projs) = 3
    /\ \E i \in DOMAIN calls :
          /\ calls[i].f = "proj_create_crs_to_crs_from_pj"
          /\ calls[i].arg = projs[3].ctx
    /\ \A p \in DOMAIN projs : Dropped(p)
    /\ \E i, j, k \in DOMAIN calls :
          /\ i < j /\ j < k
          /\ calls[i] = Call("proj_context_destroy", projs[1].ctx, 1)
          /\ calls[j] = Call("proj_context_destroy", projs[3].ctx, 3)
          /\ calls[k] = Call("proj_context_destroy", projs[2].ctx, 2)

\* The last constructor was one of a ProjBuilder, which it consumed, and it
\* produced a Proj.
BuiltByBuilder ==
    /\ builder.moved # 0
    /\ result.ok
    /\ result.calls # << >>
    /\ result.calls[Len(result.calls)] = Call("proj_cleanup", 0, 0)

\* Native calls so far that destroyed context c, as made by Proj `by` (0:
\* by a ProjBuilder).
Destroys(c, by) ==
    Cardinality({i \in DOMAIN calls :
                    calls[i] = Call("proj_context_destroy", c, by)})

\* C17: a Proj produced by a ProjBuilder holds the context the builder had
\* configured, with the endpoint set on it, and the builder is left with a
\* context created in the same call; the placeholder was destroyed once, by
\* the builder, the configured context is destroyed once, by the Proj's drop
\* and not before, and no native object is destroyed twice.
C17_BuilderMovesItsContext ==
    /\ \A i \in DOMAIN native : native[i].destroys <= 1
    /\ BuiltByBuilder =>
          LET configured == builder.moved
              placeholder == result.calls[1].arg
          IN  /\ result.calls[1].f = "proj_context_create"
              /\ result.proj.ctx = configured
              /\ placeholder # configured
              /\ native[placeholder].destroys = 1
              /\ Destroys(placeholder, 0) = 1
              /\ Destroys(configured, 0) = 0
              /\ \E p \in DOMAIN projs :
                    /\ projs[p] = [result.proj EXCEPT !.step = projs[p].step]
                    /\ native[configured].destroys = IF Dropped(p) THEN 1 ELSE 0
                    /\ Destroys(configured, p) = IF Dropped(p) THEN 1 ELSE 0

\* A Proj produced by a builder whose endpoint had been set, and dropped.
C17_Witness ==
    /\ BuiltByBuilder
    /\ native[result.proj.ctx].endpoint = "https://github.com/georust"
    /\ \E p \in DOMAIN projs : projs[p].ctx = result.proj.ctx /\ Dropped(p)

\* How many of the four bounds the engine wrote are the sentinel.
SentinelBounds ==
    Cardinality({i \in 1..4 : areaOfUse.bounds[i] = Sentinel})

\* C18: when the native query reports success, area_of_use returns no area
\* exactly when all four bounds are the sentinel, and does not return Ok when
\* some but not all of them are.
C18_NoAreaIffAllSentinel ==
    (areaOfUse.asked /\ areaOfUse.res # 0) =>
        /\ areaOfUse.ok => (~areaOfUse.area.some <=> SentinelBounds = 4)
        /\ SentinelBounds \in 1..3 => ~areaOfUse.ok

\* What the code does instead: no area as soon as one bound is the sentinel.
NoAreaIfAnySentinel ==
    (areaOfUse.asked /\ areaOfUse.res # 0 /\ areaOfUse.name # NotUtf8) =>
        /\ areaOfUse.ok
        /\ ~areaOfUse.area.some <=> SentinelBounds > 0
        /\ areaOfUse.area.some =>
              areaOfUse.bounds = <<areaOfUse.area.west, areaOfUse.area.south,
                                   areaOfUse.area.east, areaOfUse.area.north>>

\* C19: when the native query returns 0, area_of_use returns Ok with no
\* area.
C19_UnknownAreaIsOk ==
    (areaOfUse.asked /\ areaOfUse.res = 0) =>
        /\ areaOfUse.ok
        /\ ~areaOfUse.area.some

\* What the code does instead: the error UnknownAreaOfUse.
UnknownAreaIsErr ==
    (areaOfUse.asked /\ areaOfUse.res = 0) =>
        /\ ~areaOfUse.ok
        /\ areaOfUse.error = "UnknownAreaOfUse"

\* Native calls so far that destroyed the shared context.
ContextDestroys ==
    Cardinality({i \in DOMAIN rcLog : rcLog[i].f = "proj_context_destroy"})

\* Pj values that are alive.
AlivePjs == {pj \in DOMAIN pjs : pjs[pj].alive}

\* C20: the shared native context is destroyed at most once; it is
\* destroyed exactly when the last handle on it, a caller's or a Pj's, is
\* gone; and its destruction is the last native call: every pipeline
\* created from it was destroyed before, once, and nothing is called on the
\* context or a pipeline afterwards.
C20_SharedContextOutlivesPipelines ==
    /\ ContextDestroys <= 1
    /\ ctxRc.strong = ctxRc.held + Cardinality(AlivePjs)
    /\ ContextDestroys = 1 <=> (ctxRc.created /\ ctxRc.strong = 0)
    /\ \A pj \in DOMAIN pjs :
          Cardinality({i \in DOMAIN rcLog : rcLog[i] = RcCall("proj_destroy", pj)})
             = IF pjs[pj].alive THEN 0 ELSE 1
    /\ \A i \in DOMAIN rcLog :
          rcLog[i].f = "proj_context_destroy" => i = Len(rcLog)

\* Two pipelines made from the context; the callers' handles were dropped
\* before the last pipeline, whose drop destroyed the context.
C20_Witness ==
    /\ Len(pjs) >= 2
    /\ AlivePjs = {}
    /\ ContextDestroys = 1
    /\ Len(rcLog) >= 2
    /\ rcLog[Len(rcLog) - 1].f = "proj_destroy"

\* The last Pj constructor was given a string that holds a NUL byte.
PjNulGiven == \E i \in DOMAIN pjResult.inputs : HasNul(pjResult.inputs[i])

\* C21: Pj::from_crs_to_crs given a source or a target CRS with an embedded
\* NUL byte returns ArgumentNulError, as Pj::from_definition does, and has
\* made no native call.
C21_CrsNulIsAnError ==
    (pjResult.op = "from_crs_to_crs" /\ PjNulGiven) =>
        /\ pjResult.ended = "ArgumentNulError"
        /\ pjResult.calls = << >>

\* Pj::from_definition does keep that contract, and neither constructor
\* hands a string with a NUL byte to the engine.
NulNeverReachesEngine ==
    PjNulGiven => /\ pjResult.calls = << >>
                  /\ pjResult.op = "from_definition" =>
                        pjResult.ended = "ArgumentNulError"

\* C22: set_enable_network returns true exactly when the engine is left in
\* the state that was asked for, whether that is enabled or disabled.
C22_TrueIffApplied ==
    networkSet.asked =>
        (networkSet.returned <=> ctxRc.network = networkSet.enable)

\* What the code returns instead: whether network access is enabled after
\* the call.
TrueIffEnabled ==
    networkSet.asked => (networkSet.returned <=> ctxRc.network)

\* The native calls that normalised a pipeline.
Normalisations ==
    {i \in DOMAIN calls : calls[i].f = "proj_normalize_for_visualization"}

\* C23: the pipeline handed to the normalisation step is destroyed by the
\* next native call, once, no later call is given it, and no Proj holds it:
\* the Proj of a successful normalisation holds the pipeline created by that
\* step.
C23_StaleHandleDestroyedOnce ==
    \A i \in Normalisations :
        LET ptr == calls[i].arg
        IN  /\ ptr # 0
            /\ i < Len(calls)
            /\ calls[i + 1] = Call("proj_destroy", ptr, 0)
            /\ native[ptr].destroys = 1
            /\ \A j \in DOMAIN calls : j > i + 1 => calls[j].arg # ptr
            /\ \A p \in DOMAIN projs : projs[p].c_proj # ptr
            /\ \A p \in DOMAIN projs :
                  (projs[p].c_proj # 0 /\ projs[p].area = ptr - 1) =>
                      /\ projs[p].c_proj = ptr + 1
                      /\ native[ptr + 1].kind = "pj"

\* A Proj made by new_known_crs with a normalised pipeline, and dropped.
C23_Witness ==
    \E i \in Normalisations, p \in DOMAIN projs :
        /\ projs[p].c_proj = calls[i].arg + 1
        /\ Dropped(p)
        /\ native[projs[p].c_proj].destroys = 1

\* C28: every Proj a constructor returned holds a non-null pipeline handle.
C28_PipelineIsNotNull ==
    /\ \A p \in DOMAIN projs : projs[p].c_proj # 0
    /\ result.ok => result.proj.c_proj # 0

\* The creation calls are checked: a Proj not made through the
\* normalisation step holds a pipeline.
UnnormalisedIsNotNull ==
    \A p \in DOMAIN projs :
        projs[p].c_proj = 0 =>
            \E i \in Normalisations : calls[i].arg = projs[p].area + 1

\* C24: the options array a native call is handed is not a null pointer and
\* holds the pointers to the selected KEY=VALUE strings, in order, and then
\* one null pointer, whether or not any option is selected.
C24_OptionsAreTerminated ==
    handed.called =>
        /\ ~handed.array.null
        /\ handed.array.ptrs = Append(AsPtrs(handed.selected), NullPtr)

\* to_projjson and crs_to_crs_from_pj do hand over such an array.
TerminatedButAsWkt ==
    handed.op # "as_wkt" => C24_OptionsAreTerminated

\* What as_wkt hands over: a null pointer when no option is selected, and
\* otherwise the pointers to the selected strings with nothing after them.
AsWktIsUnterminated ==
    (handed.op = "as_wkt") =>
        /\ handed.called
        /\ handed.array = IF handed.selected = << >> THEN NullArray
                          ELSE ArrayOf(AsPtrs(handed.selected))

RECURSIVE SumOf(_)
SumOf(ms) == IF ms = << >> THEN 0 ELSE Head(ms) + SumOf(Tail(ms))

\* C25: the k-th re-request of a retry run is preceded by a sleep of
\* k*k*100 ms, no sleep is longer than 6400 ms, and the sleeps of a run add
\* up to 25500 ms at most.
C25_SleepsAreQuadratic ==
    /\ \A k \in DOMAIN sleeps : sleeps[k] = k * k * 100 /\ sleeps[k] <= 6400
    /\ Len(sleeps) = Len(reqlog) - (IF reqlog = << >> THEN 0 ELSE 1)
    /\ SumOf(sleeps) <= 25500
    /\ get_wait_time_quad(0) = 0

\* What the loop does: the same sleeps, with one more re-request, so up to
\* 8100 ms for one sleep and 28500 ms in all.
SleepsOfNineRetries ==
    /\ \A k \in DOMAIN sleeps : sleeps[k] = k * k * 100 /\ sleeps[k] <= 8100
    /\ SumOf(sleeps) <= 28500
    /\ get_wait_time_quad(0) = 0

\* C26: the pointer array holds one pointer per accepted string, in push
\* order, each the address of the stored C string with that string's bytes,
\* and then one null pointer; a push fails exactly on a string with an
\* interior NUL and then leaves both fields as they were; as_ptr is null
\* exactly when no string was accepted and otherwise points at that array.
C26_ArrayIsNullTerminated ==
    /\ Len(array.cstrings) = Len(array.accepted)
    /\ Len(array.ptrs) = Len(array.accepted) + 1
    /\ \A i \in DOMAIN array.accepted :
          /\ array.cstrings[i].bytes = array.accepted[i]
          /\ array.ptrs[i] = array.cstrings[i].addr
          /\ array.ptrs[i] # 0
          /\ \A j \in DOMAIN array.accepted : i # j => array.ptrs[i] # array.ptrs[j]
    /\ array.ptrs[Len(array.ptrs)] = 0
    /\ array.result = "NulError" <=> (array.pushes > 0 /\ HasNul(array.s))
    /\ array.result = "NulError" =>
          /\ array.cstrings = array.before.cstrings
          /\ array.ptrs = array.before.ptrs
    /\ as_ptr.null <=> array.accepted = << >>
    /\ ~as_ptr.null => as_ptr.ptrs = array.ptrs

\* Two strings accepted, then a push of a string with a NUL refused.
C26_Witness ==
    /\ Len(array.accepted) = 2
    /\ array.accepted[1] # array.accepted[2]
    /\ array.result = "NulError"
    /\ ~as_ptr.null

\* The contexts and areas the last constructor created.
MadeByLast ==
    {result.calls[i].arg : i \in {j \in DOMAIN result.calls :
        result.calls[j].f \in {"proj_context_create", "proj_area_create"}}}

\* C27: when a constructor returns an error, every context and area it
\* created has been destroyed.
C27_FailureLeaksNothing ==
    ~result.ok => \A h \in MadeByLast : native[h].destroys = 1

\* What the constructors of Proj do instead: nothing created by a failed
\* call is ever destroyed.
FailureDestroysNothing ==
    (~result.ok /\ builder = NoBuilder) =>
        \A h \in MadeByLast : native[h].destroys = 0

\* A step in which proj_cleanup is called.
CleanupCalled ==
    /\ Len(calls') > Len(calls)
    /\ \E i \in (Len(calls) + 1)..Len(calls') : calls'[i].f = "proj_cleanup"

\* C29: proj_cleanup is called only when no other Proj is live and no
\* ProjBuilder holds a context.
C29_CleanupOnlyWhenAlone ==
    [][CleanupCalled =>
          /\ \A q \in DOMAIN projs' : projs'[q].step # Live
          /\ builder'.ctx = 0]_vars

\* C30: after a batch call that read a nonzero error code or got a nonzero
\* return status, every element of the caller's slice is what it was before
\* the call.
C30_FailedBatchLeavesSlice ==
    (outcome.op \in ArrayOps /\ (outcome.errno # 0 \/ outcome.trans # 0)) =>
        /\ DOMAIN outcome.points = DOMAIN outcome.input
        /\ \A i \in DOMAIN outcome.input : outcome.points[i] = outcome.input[i]

\* A failed batch of two coordinates, the first of which the engine did
\* transform.
C30_Witness ==
    /\ outcome.op \in ArrayOps
    /\ outcome.errno # 0
    /\ Len(outcome.input) = 2
    /\ EngineErrno(RanIn, Pad(outcome.input[1])) = 0
    /\ outcome.points = outcome.input

=========================================================================
